---- MODULE Spec2Model ----
(***************************************************************************)
(* A model of Scripts/build_wv_aggregation_json.py: the normalisation      *)
(* helpers, the row-ingestion loop of main() with its de-duplication, the  *)
(* per-county aggregation, and the competitiveness classifier.             *)
(*                                                                         *)
(* Raw input text (CSV headers and fields) is a sequence of one-character  *)
(* strings, so that strip / lower / upper / re.sub act on characters.      *)
(* Normalised values that the program only compares or uses as dictionary  *)
(* keys are joined into ordinary strings.                                  *)
(***************************************************************************)
EXTENDS Integers, Sequences, FiniteSets, TLC

(***************************************************************************)
(* Characters and the str methods the helpers use.                         *)
(***************************************************************************)
LowerLetters ==
    <<"a","b","c","d","e","f","g","h","i","j","k","l","m",
      "n","o","p","q","r","s","t","u","v","w","x","y","z">>

UpperLetters ==
    <<"A","B","C","D","E","F","G","H","I","J","K","L","M",
      "N","O","P","Q","R","S","T","U","V","W","X","Y","Z">>

Digits == <<"0","1","2","3","4","5","6","7","8","9">>

\* Position of the first c in seq, 0 when there is none
IndexIn(seq, c) ==
    IF \E i \in 1..Len(seq) : seq[i] = c
    THEN CHOOSE i \in 1..Len(seq) : seq[i] = c /\ \A j \in 1..(i - 1) : seq[j] # c
    ELSE 0

LowerSet == {LowerLetters[i] : i \in 1..Len(LowerLetters)}
UpperSet == {UpperLetters[i] : i \in 1..Len(UpperLetters)}
DigitSet == {Digits[i] : i \in 1..Len(Digits)}

ToLower == [c \in UpperSet |-> LowerLetters[IndexIn(UpperLetters, c)]]
ToUpper == [c \in LowerSet |-> UpperLetters[IndexIn(LowerLetters, c)]]
DigitOf == [c \in DigitSet |-> IndexIn(Digits, c) - 1]

IsLower(c) == c \in LowerSet
IsUpper(c) == c \in UpperSet
IsAlpha(c) == IsLower(c) \/ IsUpper(c)
IsDigit(c) == c \in DigitSet
IsSpace(c) == c \in {" ", "\t"}

LowerChar(c) == IF IsUpper(c) THEN ToLower[c] ELSE c
UpperChar(c) == IF IsLower(c) THEN ToUpper[c] ELSE c

\* A sequence given as a function on 1..n, as an explicit tuple
AsSeq(f) == f \o <<>>

\* str.lower() / str.upper()
Lower(s) == AsSeq([i \in 1..Len(s) |-> LowerChar(s[i])])
Upper(s) == AsSeq([i \in 1..Len(s) |-> UpperChar(s[i])])

RECURSIVE LStrip(_)
LStrip(s) == IF s # <<>> /\ IsSpace(Head(s)) THEN LStrip(Tail(s)) ELSE s

RECURSIVE RStrip(_)
RStrip(s) ==
    IF s # <<>> /\ IsSpace(s[Len(s)]) THEN RStrip(SubSeq(s, 1, Len(s) - 1)) ELSE s

\* str.strip()
Strip(s) == RStrip(LStrip(s))

\* re.sub(r"\s+", " ", s)
RECURSIVE CollapseWs(_)
CollapseWs(s) ==
    IF s = <<>> THEN <<>>
    ELSE IF IsSpace(Head(s))
         THEN <<" ">> \o CollapseWs(LStrip(s))
         ELSE <<Head(s)>> \o CollapseWs(Tail(s))

\* s.replace(old, new) for a one-character old and an empty new
RECURSIVE RemoveChar(_, _)
RemoveChar(s, c) ==
    IF s = <<>> THEN <<>>
    ELSE IF Head(s) = c THEN RemoveChar(Tail(s), c)
         ELSE <<Head(s)>> \o RemoveChar(Tail(s), c)

\* s.replace("  ", " "): leftmost non-overlapping occurrences
RECURSIVE ReplaceDoubleSpace(_)
ReplaceDoubleSpace(s) ==
    IF Len(s) < 2 THEN s
    ELSE IF s[1] = " " /\ s[2] = " "
         THEN <<" ">> \o ReplaceDoubleSpace(SubSeq(s, 3, Len(s)))
         ELSE <<Head(s)>> \o ReplaceDoubleSpace(Tail(s))

\* The characters of a sequence as one string
RECURSIVE Join(_)
Join(s) == IF s = <<>> THEN "" ELSE Head(s) \o Join(Tail(s))

(***************************************************************************)
(* Text normaliser.                                                        *)
(***************************************************************************)
normalize_text(v) == Upper(CollapseWs(Strip(v)))

normalize_office(v) == ReplaceDoubleSpace(normalize_text(v))

OFFICE_MAP ==
    [o \in {"PRESIDENT", "U.S. PRESIDENT", "US PRESIDENT",
            "PRESIDENT OF THE UNITED STATES", "U.S. SENATE", "US SENATE",
            "SENATE", "GOVERNOR", "SECRETARY OF STATE", "ATTORNEY GENERAL",
            "AUDITOR", "STATE AUDITOR", "AUDITOR OF STATE", "TREASURER",
            "STATE TREASURER", "COMMISSIONER OF AGRICULTURE",
            "COMMISIONER OF AGRICULTURE"} |->
        CASE o \in {"PRESIDENT", "U.S. PRESIDENT", "US PRESIDENT",
                    "PRESIDENT OF THE UNITED STATES"} ->
                 <<"president", "President of the United States">>
          [] o \in {"U.S. SENATE", "US SENATE", "SENATE"} ->
                 <<"us_senate", "United States Senator">>
          [] o = "GOVERNOR" -> <<"governor", "Governor">>
          [] o = "SECRETARY OF STATE" -> <<"secretary_of_state", "Secretary of State">>
          [] o = "ATTORNEY GENERAL" -> <<"attorney_general", "Attorney General">>
          [] o \in {"AUDITOR", "STATE AUDITOR", "AUDITOR OF STATE"} ->
                 <<"auditor", "Auditor">>
          [] o \in {"TREASURER", "STATE TREASURER"} ->
                 <<"state_treasurer", "State Treasurer">>
          [] OTHER -> <<"commissioner_of_agriculture", "Commissioner of Agriculture">>]

PARTY_MAP ==
    [p \in {"D", "DEM", "DEMOCRAT", "DEMOCRATIC", "R", "REP", "REPUBLICAN",
            "LBN", "LIB", "LIBERTARIAN", "MTN", "MOUNTAIN", "CST",
            "CONSTITUTION", "IND", "INDEPENDENT", "NON", "NPA",
            "NO AFFILIATION"} |->
        CASE p \in {"D", "DEM", "DEMOCRAT", "DEMOCRATIC"} -> "DEM"
          [] p \in {"R", "REP", "REPUBLICAN"} -> "REP"
          [] p \in {"LBN", "LIB", "LIBERTARIAN"} -> "LIB"
          [] p \in {"MTN", "MOUNTAIN"} -> "MTN"
          [] p \in {"CST", "CONSTITUTION"} -> "CST"
          [] p \in {"IND", "INDEPENDENT"} -> "IND"
          [] OTHER -> "NPA"]

\* PARTY_MAP.get(p, p), "" for an empty code
\* normalize_party that returns "" for a code outside the table
normalize_party_DropUnknown(v) ==
    LET p == Join(normalize_text(v))
    IN  IF p = "" THEN ""
        ELSE IF p \in DOMAIN PARTY_MAP THEN PARTY_MAP[p] ELSE ""

normalize_party(v) ==
    LET p == Join(normalize_text(v))
    IN  IF p = "" THEN ""
        ELSE IF p \in DOMAIN PARTY_MAP THEN PARTY_MAP[p] ELSE p

(***************************************************************************)
(* Vote parsing.  A result is [raised, value]: raised is TRUE when         *)
(* float() raises ValueError.                                              *)
(***************************************************************************)
Returned(n) == [raised |-> FALSE, value |-> n]
Raised == [raised |-> TRUE, value |-> 0]

RECURSIVE DigitsValue(_)
DigitsValue(s) ==
    IF s = <<>> THEN 0
    ELSE 10 * DigitsValue(SubSeq(s, 1, Len(s) - 1)) + DigitOf[s[Len(s)]]

RECURSIVE Pow10(_)
Pow10(n) == IF n = 0 THEN 1 ELSE 10 * Pow10(n - 1)

AllDigits(s) == \A i \in 1..Len(s) : IsDigit(s[i])

\* round() of the non-negative decimal num / den: ties go to the even integer
RoundHalfEven(num, den) ==
    LET q == num \div den
        r == num % den
    IN  IF 2 * r > den THEN q + 1
        ELSE IF 2 * r < den THEN q
        ELSE IF q % 2 = 0 THEN q ELSE q + 1

\* int(round(float(v))) for the decimal literals  [+-] digits [. digits]
\* and  [+-] . digits ; every other text raises.
FloatRound(v) ==
    LET s    == Strip(v)
        neg  == s # <<>> /\ Head(s) = "-"
        body == IF s # <<>> /\ Head(s) \in {"+", "-"} THEN Tail(s) ELSE s
        dot  == IndexIn(body, ".")
        ip   == IF dot = 0 THEN body ELSE SubSeq(body, 1, dot - 1)
        fp   == IF dot = 0 THEN <<>> ELSE SubSeq(body, dot + 1, Len(body))
        ok   == /\ AllDigits(ip) /\ AllDigits(fp)
                /\ Len(ip) + Len(fp) > 0
        mag  == RoundHalfEven(DigitsValue(ip \o fp), Pow10(Len(fp)))
    IN  IF ~ok THEN Raised
        ELSE Returned(IF neg THEN 0 - mag ELSE mag)

\* to_int with the parse error swallowed
to_int_Lenient(v) ==
    LET s == Strip(v)
        t == RemoveChar(s, ",")
        f == FloatRound(t)
    IN  IF s = <<>> THEN Returned(0)
        ELSE IF t \in {<<"-">>, <<"-", "-">>} THEN Returned(0)
        ELSE IF f.raised THEN Returned(0) ELSE f

\* to_int without the removal of the thousands separators
to_int_KeepCommas(v) ==
    LET s == Strip(v)
    IN  IF s = <<>> THEN Returned(0)
        ELSE IF s \in {<<"-">>, <<"-", "-">>} THEN Returned(0)
        ELSE FloatRound(s)

to_int(v) ==
    LET s == Strip(v)
        t == RemoveChar(s, ",")
    IN  IF s = <<>> THEN Returned(0)
        ELSE IF t \in {<<"-">>, <<"-", "-">>} THEN Returned(0)
        ELSE FloatRound(t)

(***************************************************************************)
(* County and candidate names.                                             *)
(***************************************************************************)
\* \w of the re module, for the characters modelled
IsWordChar(c) == IsAlpha(c) \/ IsDigit(c) \/ c = "_"

\* \b before position i of s (1-based; i = Len(s) + 1 is the end)
WordBoundary(s, i) ==
    LET before == i > 1 /\ IsWordChar(s[i - 1])
        after  == i <= Len(s) /\ IsWordChar(s[i])
    IN  before # after

\* str.isupper(): some cased character and no lowercase one
IsUpperStr(s) ==
    /\ \E i \in 1..Len(s) : IsUpper(s[i])
    /\ \A i \in 1..Len(s) : ~IsLower(s[i])

\* str.title(): a cased character is uppercased after an uncased one (or at
\* the start) and lowercased after a cased one
Title(s) ==
    AsSeq([i \in 1..Len(s) |->
        IF ~IsAlpha(s[i]) THEN s[i]
        ELSE IF i > 1 /\ IsAlpha(s[i - 1]) THEN LowerChar(s[i])
        ELSE UpperChar(s[i])])

\* re.sub(r"\bMc([a-z])", lambda m: "Mc" + m.group(1).upper(), t)
FixMc(t) ==
    AsSeq([i \in 1..Len(t) |->
        IF /\ i >= 3 /\ t[i - 2] = "M" /\ t[i - 1] = "c" /\ IsLower(t[i])
           /\ WordBoundary(t, i - 2)
        THEN UpperChar(t[i]) ELSE t[i]])

\* re.sub(r"\s+COUNTY$", "", c, flags=re.IGNORECASE)
StripCountySuffix(c) ==
    LET n == Len(c)
    IN  IF /\ n >= 7
           /\ Lower(SubSeq(c, n - 5, n)) = <<"c", "o", "u", "n", "t", "y">>
           /\ IsSpace(c[n - 6])
        THEN RStrip(SubSeq(c, 1, n - 6))
        ELSE c

normalize_county_name(v) == StripCountySuffix(CollapseWs(Strip(v)))

display_county_name(v) ==
    LET c == normalize_county_name(v)
    IN  IF c = <<>> THEN c
        ELSE IF IsUpperStr(c) THEN FixMc(Title(c))
        ELSE c

county_key(v) == normalize_text(normalize_county_name(v))

\* re.sub(r"[^a-z]", "", v.strip().lower())
RECURSIVE OnlyLower(_)
OnlyLower(s) ==
    IF s = <<>> THEN <<>>
    ELSE IF IsLower(Head(s)) THEN <<Head(s)>> \o OnlyLower(Tail(s))
         ELSE OnlyLower(Tail(s))

county_norm_token(v) == OnlyLower(Lower(Strip(v)))

COUNTY_ALIASES ==
    [a \in {"glimer", "pocohontas", "pocohantas"} |->
        IF a = "glimer" THEN "gilmer" ELSE "pocahontas"]

\* The lookup built from the names of the reference's features: a function
\* from token to display name; a later feature replaces an earlier one with
\* the same token, and a feature with an empty name is skipped.
RECURSIVE load_county_lookup(_)
load_county_lookup(names) ==
    IF names = <<>> THEN <<>>
    ELSE LET rest == load_county_lookup(SubSeq(names, 1, Len(names) - 1))
             name == display_county_name(names[Len(names)])
             tok  == Join(county_norm_token(name))
         IN  IF name = <<>> THEN rest
             ELSE [k \in (DOMAIN rest) \cup {tok} |->
                      IF k = tok THEN name ELSE rest[k]]

\* canonicalize_county_name without the alias table
canonicalize_county_name_NoAlias(raw, county_lookup) ==
    LET c     == normalize_county_name(raw)
        token == Join(county_norm_token(c))
    IN  IF c = <<>> THEN <<>>
        ELSE IF DOMAIN county_lookup = {} THEN display_county_name(c)
        ELSE IF token \in DOMAIN county_lookup THEN county_lookup[token]
        ELSE <<>>

canonicalize_county_name(raw, county_lookup) ==
    LET c     == normalize_county_name(raw)
        token == Join(county_norm_token(c))
        tok2  == IF token \in DOMAIN COUNTY_ALIASES THEN COUNTY_ALIASES[token] ELSE token
    IN  IF c = <<>> THEN <<>>
        ELSE IF DOMAIN county_lookup = {} THEN display_county_name(c)
        ELSE IF tok2 \in DOMAIN county_lookup THEN county_lookup[tok2]
        ELSE <<>>

\* The maximal run of \w characters that contains position i of s
WordStart(s, i) ==
    CHOOSE a \in 1..i :
        /\ \A k \in a..i : IsWordChar(s[k])
        /\ (a = 1 \/ ~IsWordChar(s[a - 1]))

WordEnd(s, i) ==
    CHOOSE b \in i..Len(s) :
        /\ \A k \in i..b : IsWordChar(s[k])
        /\ (b = Len(s) \/ ~IsWordChar(s[b + 1]))

RomanNumerals ==
    { <<"I","i">>, <<"I","i","i">>, <<"I","v">>, <<"V">>, <<"V","i">>,
      <<"V","i","i">>, <<"V","i","i","i">>, <<"I","x">>, <<"X">> }

\* re.sub(r"\b(O')([a-z])", lambda m: m.group(1) + m.group(2).upper(), t)
FixOApostrophe(t) ==
    AsSeq([i \in 1..Len(t) |->
        IF /\ i >= 3 /\ t[i - 2] = "O" /\ t[i - 1] = "'" /\ IsLower(t[i])
           /\ WordBoundary(t, i - 2)
        THEN UpperChar(t[i]) ELSE t[i]])

\* re.sub(r"\b(Ii|Iii|Iv|V|Vi|Vii|Viii|Ix|X)\b", lambda m: m.group(0).upper(), t):
\* both ends are word boundaries and the text between holds letters only, so
\* a match is a whole word.
FixRoman(t) ==
    AsSeq([i \in 1..Len(t) |->
        IF /\ IsWordChar(t[i])
           /\ SubSeq(t, WordStart(t, i), WordEnd(t, i)) \in RomanNumerals
        THEN UpperChar(t[i]) ELSE t[i]])

\* re.sub(r"\bXy\.?\b", "Xy.", t, flags=re.IGNORECASE) for the two-letter
\* suffix <<x, y>> given in lowercase (Jr, Sr).  The optional period is taken
\* only when a word boundary follows it, i.e. when a word character does;
\* otherwise the match ends after the letters, where a boundary is needed.
RECURSIVE FixSuffixFrom(_, _, _, _)
FixSuffixFrom(t, i, x, y) ==
    IF i > Len(t) THEN <<>>
    ELSE LET letters == /\ i + 1 <= Len(t)
                        /\ LowerChar(t[i]) = x /\ LowerChar(t[i + 1]) = y
                        /\ WordBoundary(t, i)
             withDot == /\ letters /\ i + 2 <= Len(t) /\ t[i + 2] = "."
                        /\ WordBoundary(t, i + 3)
             bare    == letters /\ WordBoundary(t, i + 2)
             repl    == <<UpperChar(x), y, ".">>
         IN  IF withDot THEN repl \o FixSuffixFrom(t, i + 3, x, y)
             ELSE IF bare THEN repl \o FixSuffixFrom(t, i + 2, x, y)
             ELSE <<t[i]>> \o FixSuffixFrom(t, i + 1, x, y)

FixSuffix(t, x, y) == FixSuffixFrom(t, 1, x, y)

normalize_candidate_name(raw) ==
    LET s == CollapseWs(Strip(raw))
    IN  IF s = <<>> THEN <<>>
        ELSE FixSuffix(FixSuffix(
                 FixRoman(FixOApostrophe(FixMc(Title(Lower(s))))), "j", "r"), "s", "r")

(***************************************************************************)
(* Input files.  A path is described by what the filename patterns read    *)
(* from it:                                                                *)
(*   name_year    the four digits the name starts with, <<>> if none       *)
(*   parent_year  the parent directory's name when it is four digits       *)
(*   segment      the lowercase county segment that the precinct pattern   *)
(*                captures in the name, <<>> when the pattern fails        *)
(*   county_file  the lowercased name ends with "__county.csv"             *)
(*   precinct     the lowercased name contains "precinct"                  *)
(*   exists       Path.exists()                                            *)
(* A CSV row is the dictionary DictReader yields, kept as the sequence of  *)
(* its [k, v] items in column order.                                       *)
(***************************************************************************)
infer_year_from_filename(path) ==
    IF path.name_year # <<>> THEN [raised |-> FALSE, value |-> path.name_year]
    ELSE IF path.parent_year # <<>> THEN [raised |-> FALSE, value |-> path.parent_year]
    ELSE [raised |-> TRUE, value |-> <<>>]

\* m.group(1).replace("_", " ")
Underscores2Spaces(s) == AsSeq([i \in 1..Len(s) |-> IF s[i] = "_" THEN " " ELSE s[i]])

infer_county_from_filename(path) ==
    IF path.segment = <<>> THEN <<>>
    ELSE display_county_name(Underscores2Spaces(path.segment))

\* row.get(key) or ""
RowGet(row, key) ==
    IF \E i \in 1..Len(row) : row[i].k = key
    THEN row[CHOOSE i \in 1..Len(row) : row[i].k = key].v
    ELSE <<>>

\* {(k or "").strip().lower(): (v or "") for k, v in row.items()}: of two
\* columns with the same lowered name the later one stays
Lowered(row) ==
    LET keys == AsSeq([i \in 1..Len(row) |-> Lower(Strip(row[i].k))])
    IN  [name \in {keys[i] : i \in 1..Len(row)} |->
            LET last == CHOOSE i \in 1..Len(row) :
                            /\ keys[i] = name
                            /\ \A j \in (i + 1)..Len(row) : keys[j] # name
            IN  row[last].v]

H_votes       == <<"v","o","t","e","s">>
H_total_votes == <<"t","o","t","a","l"," ","v","o","t","e","s">>
H_total_votes_u == <<"t","o","t","a","l","_","v","o","t","e","s">>
H_county    == <<"c","o","u","n","t","y">>
H_office    == <<"o","f","f","i","c","e">>
H_party     == <<"p","a","r","t","y">>
H_candidate == <<"c","a","n","d","i","d","a","t","e">>

extract_votes(row) ==
    LET lowered == Lowered(row)
    IN  IF H_votes \in DOMAIN lowered THEN to_int(lowered[H_votes])
        ELSE IF H_total_votes \in DOMAIN lowered THEN to_int(lowered[H_total_votes])
        ELSE IF H_total_votes_u \in DOMAIN lowered THEN to_int(lowered[H_total_votes_u])
        ELSE Returned(0)

(***************************************************************************)
(* The accumulators of main() and the body of its row loop.                *)
(*   grouped_by_year         <<year, contest_type, ckey>> -> entries, an   *)
(*                           entry being <<party, candidate, votes>>       *)
(*   contest_labels_by_year  <<year, contest_type>> -> display label       *)
(*   county_name_by_key      ckey -> display name                          *)
(*   seen_entries            the set of dedupe keys                        *)
(***************************************************************************)
EmptyMap == <<>>

EmptyAcc ==
    [grouped_by_year        |-> EmptyMap,
     contest_labels_by_year |-> EmptyMap,
     county_name_by_key     |-> EmptyMap,
     seen_entries           |-> {}]

\* d[k] = v
Put(d, k, v) == [x \in (DOMAIN d) \cup {k} |-> IF x = k THEN v ELSE d[x]]

\* d.setdefault(k, v)
SetDefault(d, k, v) == IF k \in DOMAIN d THEN d ELSE Put(d, k, v)

\* d[k].append(e) on a defaultdict(list)
AppendTo(d, k, e) == Put(d, k, (IF k \in DOMAIN d THEN d[k] ELSE <<>>) \o <<e>>)

\* dedupe_key without the vote count
dedupe_key_NoVotes(year, contest_type, ckey, party, candidate, votes) ==
    <<year, contest_type, ckey, party, candidate, 0>>

dedupe_key(year, contest_type, ckey, party, candidate, votes) ==
    <<year, contest_type, ckey, party, candidate, votes>>

\* The fields of one row after normalisation (lines 329-336)
NormalizedRow(path, row, county_lookup) ==
    LET stripped == Strip(RowGet(row, H_county))
        county   == IF stripped = <<>> THEN infer_county_from_filename(path)
                    ELSE stripped
    IN  [county    |-> canonicalize_county_name(county, county_lookup),
         office    |-> Join(normalize_office(RowGet(row, H_office))),
         party     |-> normalize_party(RowGet(row, H_party)),
         candidate |-> Join(normalize_candidate_name(RowGet(row, H_candidate))),
         votes     |-> extract_votes(row)]

\* The row-level filters of lines 338-348, evaluated once the row's fields
\* have all been normalised
RowSkipped(n) ==
    \/ n.county = <<>>
    \/ n.office \notin DOMAIN OFFICE_MAP
    \/ n.candidate = ""
    \/ county_key(n.county) = <<>>

\* StoreRecord without the membership test of line 353
StoreRecord_NoDedupe(acc, names, key, label) ==
    [outcome |-> "accepted",
     acc |-> [grouped_by_year |->
                  AppendTo(acc.grouped_by_year, <<key[1], key[2], key[3]>>,
                           <<key[4], key[5], key[6]>>),
              contest_labels_by_year |->
                  Put(acc.contest_labels_by_year, <<key[1], key[2]>>, label),
              county_name_by_key |-> names,
              seen_entries |-> acc.seen_entries \cup {key}]]

\* StoreRecord that appends the entry of a duplicate all the same
StoreRecord_DuplicateAppended(acc, names, key, label) ==
    IF key \in acc.seen_entries
    THEN [outcome |-> "duplicate",
          acc |-> [acc EXCEPT !.county_name_by_key = names,
                              !.grouped_by_year =
                                  AppendTo(acc.grouped_by_year,
                                           <<key[1], key[2], key[3]>>,
                                           <<key[4], key[5], key[6]>>)]]
    ELSE [outcome |-> "accepted",
          acc |-> [grouped_by_year |->
                       AppendTo(acc.grouped_by_year, <<key[1], key[2], key[3]>>,
                                <<key[4], key[5], key[6]>>),
                   contest_labels_by_year |->
                       Put(acc.contest_labels_by_year, <<key[1], key[2]>>, label),
                   county_name_by_key |-> names,
                   seen_entries |-> acc.seen_entries \cup {key}]]

\* StoreRecord without line 355: the tuple of an accepted record is not
\* remembered
StoreRecord_SeenForgotten(acc, names, key, label) ==
    IF key \in acc.seen_entries
    THEN [outcome |-> "duplicate",
          acc |-> [acc EXCEPT !.county_name_by_key = names]]
    ELSE [outcome |-> "accepted",
          acc |-> [grouped_by_year |->
                       AppendTo(acc.grouped_by_year, <<key[1], key[2], key[3]>>,
                                <<key[4], key[5], key[6]>>),
                   contest_labels_by_year |->
                       Put(acc.contest_labels_by_year, <<key[1], key[2]>>, label),
                   county_name_by_key |-> names,
                   seen_entries |-> acc.seen_entries]]

\* Lines 352-357: the de-duplication and the append, given the dedupe key
\* and the county names after line 349
StoreRecord(acc, names, key, label) ==
    IF key \in acc.seen_entries
    THEN [outcome |-> "duplicate",
          acc |-> [acc EXCEPT !.county_name_by_key = names]]
    ELSE [outcome |-> "accepted",
          acc |-> [grouped_by_year |->
                       AppendTo(acc.grouped_by_year, <<key[1], key[2], key[3]>>,
                                <<key[4], key[5], key[6]>>),
                   contest_labels_by_year |->
                       Put(acc.contest_labels_by_year, <<key[1], key[2]>>, label),
                   county_name_by_key |-> names,
                   seen_entries |-> acc.seen_entries \cup {key}]]

\* Lines 346-351 for a row that passed the filters
KeepRow(acc, year, n, ckey, contest) ==
    StoreRecord(acc,
                SetDefault(acc.county_name_by_key, ckey, display_county_name(n.county)),
                dedupe_key(year, contest[1], ckey, n.party, n.candidate, n.votes.value),
                contest[2])

\* Lines 336-348 on the normalised fields: the votes field is parsed before
\* any filter is applied
IngestFields(acc, year, n) ==
    IF n.votes.raised THEN [outcome |-> "raised", acc |-> acc]
    ELSE IF RowSkipped(n) THEN [outcome |-> "skipped", acc |-> acc]
    ELSE KeepRow(acc, year, n, county_key(n.county), OFFICE_MAP[n.office])

\* One iteration of the row loop: [outcome, acc] with outcome one of
\* "raised" (ValueError from the votes field), "skipped", "duplicate",
\* "accepted".
IngestRow(acc, path, year, row, county_lookup) ==
    IngestFields(acc, year, NormalizedRow(path, row, county_lookup))

(***************************************************************************)
(* Competitiveness classifier.  margin_pct is a float rounded to two       *)
(* decimals; it is held as the integer number of hundredths, on which the  *)
(* comparisons with 40, 30, 20, 10, 5.5, 0.99 and 0.5 are exact.           *)
(***************************************************************************)
Abs(n) == IF n < 0 THEN 0 - n ELSE n

\* Tier with the Likely band opened at 5.5 itself
Tier_LikelyInclusive(abs_margin) ==
    IF abs_margin >= 4000 THEN "ANNIHILATION"
    ELSE IF abs_margin >= 3000 THEN "DOMINANT"
    ELSE IF abs_margin >= 2000 THEN "STRONGHOLD"
    ELSE IF abs_margin >= 1000 THEN "SAFE"
    ELSE IF abs_margin >= 550 THEN "LIKELY"
    ELSE IF abs_margin > 99 THEN "LEAN"
    ELSE IF abs_margin >= 50 THEN "TILT"
    ELSE "TOSSUP"

\* Tier with the Tilt band opened just above 0.5
Tier_TiltExclusive(abs_margin) ==
    IF abs_margin >= 4000 THEN "ANNIHILATION"
    ELSE IF abs_margin >= 3000 THEN "DOMINANT"
    ELSE IF abs_margin >= 2000 THEN "STRONGHOLD"
    ELSE IF abs_margin >= 1000 THEN "SAFE"
    ELSE IF abs_margin > 550 THEN "LIKELY"
    ELSE IF abs_margin > 99 THEN "LEAN"
    ELSE IF abs_margin > 50 THEN "TILT"
    ELSE "TOSSUP"

\* Tier with the Dominant band opened at 35
Tier_DominantFrom35(abs_margin) ==
    IF abs_margin >= 4000 THEN "ANNIHILATION"
    ELSE IF abs_margin >= 3500 THEN "DOMINANT"
    ELSE IF abs_margin >= 2000 THEN "STRONGHOLD"
    ELSE IF abs_margin >= 1000 THEN "SAFE"
    ELSE IF abs_margin > 550 THEN "LIKELY"
    ELSE IF abs_margin > 99 THEN "LEAN"
    ELSE IF abs_margin >= 50 THEN "TILT"
    ELSE "TOSSUP"

Tier(abs_margin) ==
    IF abs_margin >= 4000 THEN "ANNIHILATION"
    ELSE IF abs_margin >= 3000 THEN "DOMINANT"
    ELSE IF abs_margin >= 2000 THEN "STRONGHOLD"
    ELSE IF abs_margin >= 1000 THEN "SAFE"
    ELSE IF abs_margin > 550 THEN "LIKELY"
    ELSE IF abs_margin > 99 THEN "LEAN"
    ELSE IF abs_margin >= 50 THEN "TILT"
    ELSE "TOSSUP"

TierPrefix ==
    [t \in {"ANNIHILATION", "DOMINANT", "STRONGHOLD", "SAFE", "LIKELY", "LEAN", "TILT"} |->
        CASE t = "ANNIHILATION" -> "Annihilation"
          [] t = "DOMINANT"     -> "Dominant"
          [] t = "STRONGHOLD"   -> "Stronghold"
          [] t = "SAFE"         -> "Safe"
          [] t = "LIKELY"       -> "Likely"
          [] t = "LEAN"         -> "Lean"
          [] OTHER              -> "Tilt"]

\* <<Democratic colour, Republican colour>> of a tier
TierColors ==
    [t \in DOMAIN TierPrefix |->
        CASE t = "ANNIHILATION" -> <<"#08306b", "#67000d">>
          [] t = "DOMINANT"     -> <<"#08519c", "#a50f15">>
          [] t = "STRONGHOLD"   -> <<"#3182bd", "#cb181d">>
          [] t = "SAFE"         -> <<"#6baed6", "#ef3b2c">>
          [] t = "LIKELY"       -> <<"#9ecae1", "#fb6a4a">>
          [] t = "LEAN"         -> <<"#c6dbef", "#fcae91">>
          [] OTHER              -> <<"#e1f5fe", "#fee8c8">>]

\* compute_competitiveness whose party is Tossup in the whole Tossup tier
compute_competitiveness_PartyByTier(margin_pct) ==
    LET abs_margin == Abs(margin_pct)
        side       == IF margin_pct > 0 THEN 1 ELSE 2
        tier       == Tier(abs_margin)
    IN  IF tier = "TOSSUP"
        THEN [category |-> "Tossup", party |-> "Tossup",
              code |-> "T_TOSSUP", color |-> "#f7f7f7"]
        ELSE [category |-> TierPrefix[tier] \o " "
                               \o <<"Democratic", "Republican">>[side],
              party    |-> <<"Democratic", "Republican">>[side],
              code     |-> <<"D", "R">>[side] \o "_" \o tier,
              color    |-> TierColors[tier][side]]

compute_competitiveness(margin_pct) ==
    LET abs_margin   == Abs(margin_pct)
        winner_party == IF margin_pct > 0 THEN "Democratic"
                        ELSE IF margin_pct < 0 THEN "Republican" ELSE "Tie"
        code_prefix  == IF margin_pct > 0 THEN "D"
                        ELSE IF margin_pct < 0 THEN "R" ELSE "T"
        tier         == Tier(abs_margin)
    IN  IF tier = "TOSSUP"
        THEN [category |-> "Tossup",
              party    |-> IF winner_party # "Tie" THEN winner_party ELSE "Tossup",
              code     |-> "T_TOSSUP",
              color    |-> "#f7f7f7"]
        ELSE [category |-> IF winner_party # "Tie"
                           THEN TierPrefix[tier] \o " " \o winner_party ELSE "Tossup",
              party    |-> IF winner_party # "Tie" THEN winner_party ELSE "Tossup",
              code     |-> IF code_prefix # "T"
                           THEN code_prefix \o "_" \o tier ELSE "T_TOSSUP",
              color    |-> IF margin_pct > 0 THEN TierColors[tier][1]
                           ELSE IF margin_pct < 0 THEN TierColors[tier][2]
                           ELSE "#f7f7f7"]

(***************************************************************************)
(* Aggregation of the grouped entries into the output document.            *)
(***************************************************************************)
RECURSIVE SumVotes(_)
SumVotes(entries) ==
    IF entries = <<>> THEN 0 ELSE entries[1][3] + SumVotes(Tail(entries))

\* [e for e in entries if e.party == party]
RECURSIVE OfParty(_, _)
OfParty(entries, party) ==
    IF entries = <<>> THEN <<>>
    ELSE IF entries[1][1] = party THEN <<entries[1]>> \o OfParty(Tail(entries), party)
         ELSE OfParty(Tail(entries), party)

\* max(entries, key=votes)[0]: the first entry with the largest votes
pick_top_candidate(entries) ==
    IF entries = <<>> THEN ""
    ELSE LET top == CHOOSE i \in 1..Len(entries) :
                        /\ \A j \in 1..Len(entries) : entries[j][3] <= entries[i][3]
                        /\ \A j \in 1..(i - 1) : entries[j][3] < entries[i][3]
         IN  entries[top][2]

\* MarginPct that cuts the quotient off after two decimals
MarginPct_Truncated(margin, two_party_total) ==
    IF two_party_total = 0 THEN 0
    ELSE LET mag == (Abs(margin) * 10000) \div Abs(two_party_total)
         IN  IF (margin < 0) # (two_party_total < 0) THEN 0 - mag ELSE mag

\* round(margin / two_party_total * 100.0, 2) in hundredths, 0 when the
\* two-party total is 0.  The quotient is rounded as an exact decimal.
MarginPct(margin, two_party_total) ==
    IF two_party_total = 0 THEN 0
    ELSE LET mag == RoundHalfEven(Abs(margin) * 10000, Abs(two_party_total))
         IN  IF (margin < 0) # (two_party_total < 0) THEN 0 - mag ELSE mag

Max(a, b) == IF a >= b THEN a ELSE b

\* party_totals[party if party else "NONPARTISAN"] += votes
PartyTotals(entries) ==
    LET label(e) == IF e[1] # "" THEN e[1] ELSE "NONPARTISAN"
        of(l) == [i \in 1..Len(entries) |->
                     IF label(entries[i]) = l THEN entries[i] ELSE <<"", "", 0>>]
    IN  [l \in {label(entries[i]) : i \in 1..Len(entries)} |-> SumVotes(of(l))]

\* The CountyContestResult of lines 378-423
CountyResult(entries, county, contest_name, year) ==
    LET dem_entries     == OfParty(entries, "DEM")
        rep_entries     == OfParty(entries, "REP")
        dem_votes       == SumVotes(dem_entries)
        rep_votes       == SumVotes(rep_entries)
        total_votes     == SumVotes(entries)
        two_party_total == dem_votes + rep_votes
        margin          == dem_votes - rep_votes
        margin_pct      == MarginPct(margin, two_party_total)
    IN  [county          |-> county,
         contest         |-> contest_name,
         year            |-> year,
         dem_candidate   |-> pick_top_candidate(dem_entries),
         rep_candidate   |-> pick_top_candidate(rep_entries),
         dem_votes       |-> dem_votes,
         rep_votes       |-> rep_votes,
         other_votes     |-> Max(0, total_votes - two_party_total),
         total_votes     |-> total_votes,
         two_party_total |-> two_party_total,
         margin          |-> margin,
         margin_pct      |-> margin_pct,
         winner          |-> IF dem_votes > rep_votes THEN "DEM"
                             ELSE IF rep_votes > dem_votes THEN "REP" ELSE "TIE",
         competitiveness |-> compute_competitiveness(margin_pct),
         all_parties     |-> PartyTotals(entries)]

\* The keys of the three levels of grouped_by_year
GroupedYears(g) == {k[1] : k \in DOMAIN g}
GroupedContests(g, year) == {k[2] : k \in {x \in DOMAIN g : x[1] = year}}
GroupedCounties(g, year, ct) ==
    {k[3] : k \in {x \in DOMAIN g : x[1] = year /\ x[2] = ct}}

\* KeepContest that also drops a contest at the minimum
KeepContest_AboveMin(n_counties, min_counties) == ~(n_counties <= min_counties)

\* not (len(county_rows) < args.min_counties_per_contest)
KeepContest(n_counties, min_counties) == ~(n_counties < min_counties)

\* county_name_by_key.get(ckey, ckey.title())
CountyDisplay(names, ckey) == IF ckey \in DOMAIN names THEN names[ckey] ELSE Title(ckey)

\* ContestKey without the year
ContestKey_TypeOnly(contest_type, year) == contest_type

\* f"{contest_type}_{year}"
ContestKey(contest_type, year) == contest_type \o "_" \o Join(year)

\* sorted() of a set of integers
RECURSIVE SortedInts(_)
SortedInts(S) ==
    IF S = {} THEN <<>>
    ELSE LET m == CHOOSE x \in S : \A y \in S : x <= y
         IN  <<m>> \o SortedInts(S \ {m})

\* The contest types in the order sorted() gives them
ContestTypesSorted ==
    <<"attorney_general", "auditor", "commissioner_of_agriculture", "governor",
      "president", "secretary_of_state", "state_treasurer", "us_senate">>

\* SortedContests in descending order
SortedContests_Descending(S) ==
    LET n == Len(ContestTypesSorted)
    IN  SelectSeq(AsSeq([i \in 1..n |-> ContestTypesSorted[n + 1 - i]]),
                  LAMBDA c : c \in S)

SortedContests(S) ==
    SelectSeq(ContestTypesSorted, LAMBDA c : c \in S)

\* Lines 359-445.  results_by_year maps a year to a contest type to a
\* one-key mapping  contest_key -> [contest_name, results];  results maps a
\* county display name to its CountyContestResult (of two keys with one
\* display name the dictionary would keep a single result).  The order in
\* which a dictionary lists its keys is not modelled.
BuildOutput(acc, min_counties) ==
    LET g == acc.grouped_by_year
        kept(year) ==
            {ct \in GroupedContests(g, year) :
                KeepContest(Cardinality(GroupedCounties(g, year, ct)), min_counties)}
        county_results(year, ct) ==
            LET keys == GroupedCounties(g, year, ct)
                name(ckey) == CountyDisplay(acc.county_name_by_key, ckey)
            IN  [county \in {name(ckey) : ckey \in keys} |->
                    LET ckey == CHOOSE k \in keys : name(k) = county
                    IN  CountyResult(g[<<year, ct, ckey>>], county,
                                     acc.contest_labels_by_year[<<year, ct>>], year)]
        results_for_year(year) ==
            [ct \in kept(year) |->
                [key \in {ContestKey(ct, year)} |->
                    [contest_name |-> acc.contest_labels_by_year[<<year, ct>>],
                     results      |-> county_results(year, ct)]]]
        years_with_data == {year \in GroupedYears(g) : kept(year) # {}}
        all_contests  == UNION {kept(year) : year \in years_with_data}
        counties_seen == UNION {GroupedCounties(g, year, ct) :
                                    <<year, ct>> \in {<<k[1], k[2]>> : k \in
                                        {x \in DOMAIN g : x[2] \in kept(x[1])}}}
    IN  [written  |-> TRUE,
         metadata |-> [title    |-> "West Virginia Election Results",
                       years    |-> SortedInts({DigitsValue(y) : y \in years_with_data}),
                       contests |-> SortedContests(all_contests),
                       counties_count |-> Cardinality(counties_seen)],
         results_by_year |-> [year \in years_with_data |-> results_for_year(year)]]

NoOutput == [written |-> FALSE]

(***************************************************************************)
(* The reader of the document in generate_wv_research_findings.py.         *)
(***************************************************************************)
\* str(year) of a non-negative int
RECURSIVE IntToText(_)
IntToText(n) ==
    IF n < 10 THEN <<Digits[n + 1]>>
    ELSE IntToText(n \div 10) \o <<Digits[(n % 10) + 1]>>

\* d.get(k, {})
GetOrEmpty(d, k) == IF k \in DOMAIN d THEN d[k] ELSE EmptyMap

\* The "results" of the first key of results_by_year[str(year)][contest_type],
\* {} when the block is missing or empty
get_county_results_for_contest(data, year, contest_type) ==
    LET year_block    == GetOrEmpty(data.results_by_year, IntToText(year))
        contest_block == GetOrEmpty(year_block, contest_type)
    IN  IF DOMAIN contest_block = {} THEN EmptyMap
        ELSE GetOrEmpty(contest_block[CHOOSE k \in DOMAIN contest_block : TRUE],
                        "results")

\* The row loop of lines 328-357 over the rows of one file, none of which
\* raises
RECURSIVE IngestRows(_, _, _, _, _)
IngestRows(acc, path, year, rows, county_lookup) ==
    IF rows = <<>> THEN acc
    ELSE IngestRows(IngestRow(acc, path, year, Head(rows), county_lookup).acc,
                    path, year, Tail(rows), county_lookup)

\* The file loop of lines 323-357 over paths, rows[i] being the rows of
\* paths[i]
RECURSIVE IngestFiles(_, _, _, _)
IngestFiles(acc, paths, rows, county_lookup) ==
    IF paths = <<>> THEN acc
    ELSE IngestFiles(IngestRows(acc, Head(paths),
                                infer_year_from_filename(Head(paths)).value,
                                Head(rows), county_lookup),
                     Tail(paths), Tail(rows), county_lookup)

\* The document main() writes for the input paths and their rows
RunOver(paths, rows, county_lookup, min_counties) ==
    BuildOutput(IngestFiles(EmptyAcc, paths, rows, county_lookup), min_counties)

\* The document main() writes when it is given the one file path holding rows
RunOnce(path, rows, county_lookup, min_counties) ==
    BuildOutput(IngestRows(EmptyAcc, path, infer_year_from_filename(path).value,
                           rows, county_lookup),
                min_counties)

(***************************************************************************)
(* Selection of the input paths (lines 288-312).                           *)
(***************************************************************************)
\* int(year) of a four-digit year text
YearInt(year) == DigitsValue(year)

\* YearPaths that keeps the precinct files of a year with a county file
YearPaths_KeepPrecinct(paths, year) ==
    SelectSeq(paths, LAMBDA p : YearInt(infer_year_from_filename(p).value) = year)

\* The paths of by_year[year] that are kept: precinct files are left out of
\* a year that has a county file
YearPaths(paths, year) ==
    LET year_paths == SelectSeq(paths,
                          LAMBDA p : YearInt(infer_year_from_filename(p).value) = year)
        has_county_file == \E i \in 1..Len(year_paths) : year_paths[i].county_file
    IN  SelectSeq(year_paths, LAMBDA p : ~(has_county_file /\ p.precinct))

RECURSIVE ConcatYears(_, _)
ConcatYears(paths, years) ==
    IF years = <<>> THEN <<>>
    ELSE YearPaths(paths, Head(years)) \o ConcatYears(paths, Tail(years))

\* [raised, paths]: raised when some discovered name gives no year
SelectGlob(discovered, min_year) ==
    LET bad  == \E i \in 1..Len(discovered) : infer_year_from_filename(discovered[i]).raised
        late == SelectSeq(discovered,
                    LAMBDA p : ~(YearInt(infer_year_from_filename(p).value) < min_year))
        years == SortedInts({YearInt(infer_year_from_filename(late[i]).value) :
                                i \in 1..Len(late)})
    IN  IF bad THEN [raised |-> TRUE, paths |-> <<>>]
        ELSE [raised |-> FALSE, paths |-> ConcatYears(late, years)]

(***************************************************************************)
(* Inputs: texts, rows, paths and command lines of the specifications.     *)
(***************************************************************************)
Txt_Boone      == <<"B","o","o","n","e">>
Txt_BOONE_CO   == <<"B","O","O","N","E"," ","C","O","U","N","T","Y">>
Txt_Kanawha    == <<"K","a","n","a","w","h","a">>
Txt_Atlantis   == <<"A","t","l","a","n","t","i","s">>
Txt_Governor   == <<"G","o","v","e","r","n","o","r">>
Txt_governor_  == <<" ","g","o","v","e","r","n","o","r"," ">>
Txt_President  == <<"P","R","E","S","I","D","E","N","T">>
Txt_Mayor      == <<"M","a","y","o","r">>
Txt_d          == <<"d">>
Txt_Dem        == <<"D","e","m">>
Txt_REP        == <<"R","E","P">>
Txt_lib        == <<"l","i","b">>
Txt_ann        == <<"a","n","n">>
Txt_ANN        == <<"A","N","N">>
Txt_bob        == <<"b","o","b">>
Txt_blank      == <<" ">>
Txt_5          == <<"5">>
Txt_5p0        == <<"5",".","0">>
Txt_3          == <<"3">>
Txt_m7         == <<"-","7">>
Txt_x          == <<"x">>
Txt_2020       == <<"2","0","2","0">>
Txt_2024       == <<"2","0","2","4">>
Txt_2016       == <<"2","0","1","6">>
Txt_boone      == <<"b","o","o","n","e">>
Txt_kanawha    == <<"k","a","n","a","w","h","a">>
Txt_7          == <<"7">>
Txt_1          == <<"1">>
Txt_2          == <<"2">>
Txt_10         == <<"1","0">>
Txt_50         == <<"5","0">>
Txt_100        == <<"1","0","0">>
Txt_DEM        == <<"D","E","M">>
Txt_Jane_Doe   == <<"J","a","n","e"," ","D","o","e">>
Txt_John_Roe   == <<"J","o","h","n"," ","R","o","e">>
Txt_KANAWHA_CO == <<"K","A","N","A","W","H","A"," ","C","O","U","N","T","Y">>
Hdr_precinct   == <<"p","r","e","c","i","n","c","t">>
Txt_john       == <<"j","o","h","n">>
Txt_SMITH      == <<"S","M","I","T","H">>
Txt_jr         == <<"j","r">>
Txt_JRdot      == <<"J","R",".">>
Txt_Srdot      == <<"S","r",".">>
Txt_mcdonald   == <<"m","c","d","o","n","a","l","d">>
Txt_oneil      == <<"o","'","n","e","i","l">>
Txt_iii        == <<"i","i","i">>
Hdr_County     == <<"C","o","u","n","t","y">>
Hdr_Office     == <<"O","f","f","i","c","e">>
Hdr_Party      == <<"P","A","R","T","Y">>
Hdr_candidate_ == <<" ","c","a","n","d","i","d","a","t","e"," ">>
Hdr_Votes      == <<"V","o","t","e","s">>
Txt_Glimer     == <<"G","l","i","m","e","r">>
Txt_Gilmer     == <<"G","i","l","m","e","r">>
Txt_Pocohantas == <<"P","o","c","o","h","a","n","t","a","s">>
Txt_Pocahontas == <<"P","o","c","a","h","o","n","t","a","s">>
Txt_McDowell   == <<"M","c","D","o","w","e","l","l">>
Txt_mcdowell_c == <<"m","c","d","o","w","e","l","l"," ","c","o","u","n","t","y">>
Txt_MCDOWELL_C == <<"M","C","D","O","W","E","L","L"," ","C","O","U","N","T","Y">>
Txt_Mcdowell_C == <<"M","c","d","o","w","e","l","l"," ","C","O","U","N","T","Y">>
Txt_xyz        == <<"x","y","z">>

Row(county, office, party, candidate, votes) ==
    << [k |-> H_county, v |-> county], [k |-> H_office, v |-> office],
       [k |-> H_party, v |-> party], [k |-> H_candidate, v |-> candidate],
       [k |-> H_votes, v |-> votes] >>

Path(name_year, parent_year, segment, county_file, precinct, exists) ==
    [name_year |-> name_year, parent_year |-> parent_year, segment |-> segment,
     county_file |-> county_file, precinct |-> precinct, exists |-> exists]

\* 20201103__wv__general__county.csv and the like
P2020county   == Path(Txt_2020, Txt_2020, <<>>, TRUE, FALSE, TRUE)
P2024county   == Path(Txt_2024, Txt_2024, <<>>, TRUE, FALSE, TRUE)
P2016county   == Path(Txt_2016, Txt_2016, <<>>, TRUE, FALSE, TRUE)
\* 20201103__wv__general__boone__precinct.csv
P2020precinct == Path(Txt_2020, Txt_2020, Txt_boone, FALSE, TRUE, TRUE)
P2024precinct == Path(Txt_2024, Txt_2024, Txt_boone, FALSE, TRUE, TRUE)
\* 20201103__wv__general__kanawha__precinct.csv
P2020kanawha  == Path(Txt_2020, Txt_2020, Txt_kanawha, FALSE, TRUE, TRUE)
\* 2024/results.csv, results.csv and a path that is not there
PParentYear   == Path(<<>>, Txt_2024, <<>>, FALSE, FALSE, TRUE)
PNoYear       == Path(<<>>, <<>>, <<>>, FALSE, FALSE, TRUE)
PMissing      == Path(Txt_2020, Txt_2020, <<>>, TRUE, FALSE, FALSE)

Args(use_input, input, discovered, min_year, min_counties, reference_exists, reference) ==
    [use_input |-> use_input, input |-> input, discovered |-> discovered,
     min_year |-> min_year, min_counties_per_contest |-> min_counties,
     reference_exists |-> reference_exists, reference |-> reference]

InputArgs(input, min_counties) ==
    Args(TRUE, input, <<>>, 1950, min_counties, FALSE, <<>>)

GlobArgs(discovered, min_year, min_counties) ==
    Args(FALSE, PNoYear, discovered, min_year, min_counties, FALSE, <<>>)

\* Rows that pass the row filters, with a non-negative or a negative count
GoodRows ==
    {Row(Txt_Boone, Txt_Governor, p, Txt_ann, v) :
        p \in {Txt_d, Txt_REP, Txt_lib}, v \in {Txt_5, Txt_m7}}
    \cup {Row(Txt_Kanawha, Txt_Governor, Txt_d, Txt_ann, Txt_5)}

\* Rows the filters skip (no county, untracked office, empty candidate),
\* with a numeric and with a non-numeric votes field
SkipRows ==
    {Row(<<>>, Txt_Governor, Txt_d, Txt_ann, v) : v \in {Txt_5, Txt_x}}
    \cup {Row(Txt_Boone, Txt_Mayor, Txt_d, Txt_ann, v) : v \in {Txt_5, Txt_x}}
    \cup {Row(Txt_Boone, Txt_Governor, Txt_d, Txt_blank, v) : v \in {Txt_5, Txt_x}}

\* A tracked row whose votes field is not numeric
BadRows == {Row(Txt_Boone, Txt_Governor, Txt_d, Txt_ann, Txt_x)}

MainRows == GoodRows \cup SkipRows \cup BadRows

MainArgs ==
    { InputArgs(P2020county, 1), InputArgs(P2020county, 2),
      InputArgs(PMissing, 1), InputArgs(PNoYear, 1),
      GlobArgs(<<>>, 1950, 1),
      GlobArgs(<<P2020county, PNoYear>>, 1950, 1),
      GlobArgs(<<P2016county, P2020county, P2020precinct>>, 2020, 1),
      GlobArgs(<<P2020county, PMissing>>, 1950, 1) }

\* Rows of one contest that normalise to the same record, that differ in the
\* votes only, that differ in the party, and a row the filters skip
DedupRows ==
    { Row(Txt_Boone, Txt_Governor, Txt_d, Txt_ann, Txt_5),
      Row(Txt_BOONE_CO, Txt_governor_, Txt_Dem, Txt_ANN, Txt_5p0),
      Row(Txt_Boone, Txt_Governor, Txt_d, Txt_ann, Txt_3),
      Row(Txt_Boone, Txt_Governor, Txt_REP, Txt_bob, Txt_5),
      Row(Txt_Boone, Txt_Mayor, Txt_d, Txt_ann, Txt_5) }

\* Two files of one year (the same name in two directories), two files of
\* different years, and a single file
DedupArgs ==
    { GlobArgs(<<P2020county, P2020county>>, 1950, 1),
      GlobArgs(<<P2020county, P2024county>>, 1950, 1),
      InputArgs(P2020county, 1) }

\* Rows with and without a county column value
IdemRows ==
    { Row(Txt_Boone, Txt_Governor, Txt_d, Txt_ann, Txt_5),
      Row(Txt_Boone, Txt_Governor, Txt_d, Txt_ann, Txt_3),
      Row(<<>>, Txt_Governor, Txt_REP, Txt_bob, Txt_5),
      Row(Txt_Boone, Txt_Mayor, Txt_d, Txt_ann, Txt_5) }

\* Pairs of files: one name in two directories, two names of one year that
\* give different counties, and the same name under two years
IdemArgs ==
    { GlobArgs(<<P2020precinct, P2020precinct>>, 1950, 1),
      GlobArgs(<<P2020precinct, P2020kanawha>>, 1950, 1),
      GlobArgs(<<P2020precinct, P2024precinct>>, 1950, 1) }

\* Two contests over two counties
FilterRows ==
    { Row(Txt_Boone, Txt_Governor, Txt_d, Txt_ann, Txt_5),
      Row(Txt_Kanawha, Txt_Governor, Txt_d, Txt_ann, Txt_5),
      Row(Txt_Boone, Txt_President, Txt_REP, Txt_bob, Txt_3),
      Row(Txt_BOONE_CO, Txt_Governor, Txt_REP, Txt_bob, Txt_3) }

FilterArgs ==
    { InputArgs(P2020county, 0), InputArgs(P2020county, 1),
      InputArgs(P2020county, 2), InputArgs(P2020county, 3),
      GlobArgs(<<P2020county, P2024county>>, 1950, 2) }

\* Rows of one contest with several records per party and per candidate, a
\* party outside the table, no party, and a negative count
TotalsRows ==
    { Row(Txt_Boone, Txt_Governor, Txt_d, Txt_ann, Txt_5),
      Row(Txt_Boone, Txt_Governor, Txt_Dem, Txt_ann, Txt_3),
      Row(Txt_Boone, Txt_Governor, Txt_d, Txt_bob, Txt_7),
      Row(Txt_Boone, Txt_Governor, Txt_REP, Txt_bob, Txt_7),
      Row(Txt_Boone, Txt_Governor, Txt_REP, Txt_bob, Txt_m7),
      Row(Txt_Boone, Txt_Governor, Txt_xyz, Txt_ann, Txt_3),
      Row(Txt_Boone, Txt_Governor, <<>>, Txt_ann, Txt_5),
      Row(Txt_Kanawha, Txt_Governor, Txt_REP, Txt_bob, Txt_5) }

TotalsArgs == { InputArgs(P2020county, 1), InputArgs(P2020precinct, 1) }

\* One record per spelling of a county: plain, upper case with the suffix,
\* misspelt, unknown, and McDowell in three casings
CountyRows ==
    { Row(Txt_Boone, Txt_Governor, Txt_d, Txt_ann, Txt_5),
      Row(Txt_BOONE_CO, Txt_Governor, Txt_d, Txt_ann, Txt_3),
      Row(Txt_Glimer, Txt_Governor, Txt_d, Txt_ann, Txt_5),
      Row(Txt_Gilmer, Txt_Governor, Txt_d, Txt_ann, Txt_3),
      Row(Txt_Pocohantas, Txt_Governor, Txt_d, Txt_ann, Txt_5),
      Row(Txt_Atlantis, Txt_Governor, Txt_d, Txt_ann, Txt_5),
      Row(Txt_mcdowell_c, Txt_Governor, Txt_d, Txt_ann, Txt_5),
      Row(Txt_MCDOWELL_C, Txt_Governor, Txt_d, Txt_ann, Txt_3),
      Row(Txt_Mcdowell_C, Txt_Governor, Txt_d, Txt_ann, Txt_7) }

\* The NAME20 values of the county reference
ReferenceNames == <<Txt_Boone, Txt_Gilmer, Txt_Pocahontas, Txt_McDowell>>

\* A run with the reference, without the reference file, and with a
\* reference file that has no features
CountyArgs ==
    { Args(TRUE, P2020county, <<>>, 1950, 1, TRUE, ReferenceNames),
      Args(TRUE, P2020county, <<>>, 1950, 1, FALSE, <<>>),
      Args(TRUE, P2020county, <<>>, 1950, 1, TRUE, <<>>) }

\* A row of Boone/Governor under the given column names
RowUnder(kcounty, koffice, kparty, kcandidate, kvotes, party, candidate, votes) ==
    << [k |-> kcounty, v |-> Txt_Boone], [k |-> koffice, v |-> Txt_Governor],
       [k |-> kparty, v |-> party], [k |-> kcandidate, v |-> candidate],
       [k |-> kvotes, v |-> votes] >>

\* The lowercase header, and headers with one column name in another casing
\* or padded with spaces
HeaderRows ==
    { RowUnder(H_county, H_office, H_party, H_candidate, H_votes, Txt_d, Txt_ann, Txt_5),
      RowUnder(Hdr_County, H_office, H_party, H_candidate, H_votes, Txt_d, Txt_ann, Txt_3),
      RowUnder(H_county, Hdr_Office, H_party, H_candidate, H_votes, Txt_d, Txt_ann, Txt_7),
      RowUnder(H_county, H_office, Hdr_Party, H_candidate, H_votes, Txt_REP, Txt_bob, Txt_5),
      RowUnder(H_county, H_office, H_party, Hdr_candidate_, H_votes, Txt_REP, Txt_bob, Txt_3),
      RowUnder(H_county, H_office, H_party, H_candidate, Hdr_Votes, Txt_REP, Txt_bob, Txt_7) }

HeaderArgs == { InputArgs(P2020county, 1), InputArgs(P2020precinct, 1) }

\* Candidate names of up to MaxNameWords words
MaxNameWords == 2

NameWords ==
    {Txt_john, Txt_SMITH, Txt_jr, Txt_JRdot, Txt_Srdot, Txt_mcdonald, Txt_oneil, Txt_iii}

RECURSIVE NamesOf(_)
NamesOf(n) ==
    IF n = 1 THEN NameWords
    ELSE {name \o <<" ">> \o w : name \in NamesOf(n - 1), w \in NameWords}

CandidateNames == UNION {NamesOf(n) : n \in 1..MaxNameWords}

\* Vote fields of up to MaxVoteLen characters
MaxVoteLen == 3

VoteChars == {"1", "2", "5", ",", ".", "-", " ", "x"}

RECURSIVE TextsOf(_)
TextsOf(n) ==
    IF n = 0 THEN {<<>>}
    ELSE {t \o <<c>> : t \in TextsOf(n - 1), c \in VoteChars}

VoteTexts == UNION {TextsOf(n) : n \in 0..MaxVoteLen}

Hdr_Total_Votes == <<"T","o","t","a","l"," ","V","o","t","e","s">>
Hdr_votes_pad   == <<" ","v","o","t","e","s"," ">>
Hdr_ballots     == <<"b","a","l","l","o","t","s">>

\* Rows with one column that may hold the votes, under each spelling of its
\* name, and rows with two such columns in either order
VoteRows ==
    {<<[k |-> h, v |-> t]>> :
        h \in {H_votes, Hdr_votes_pad, Hdr_Total_Votes, H_total_votes_u, Hdr_ballots},
        t \in VoteTexts}
    \cup
    {<<[k |-> h1, v |-> t1], [k |-> h2, v |-> t2]>> :
        h1 \in {H_votes, Hdr_Total_Votes, H_total_votes_u},
        h2 \in {H_votes, Hdr_Total_Votes, H_total_votes_u},
        t1 \in {Txt_5, <<>>, Txt_xyz}, t2 \in {Txt_7, <<"-">>}}

\* The two rows of the end-to-end scenario
Row_JaneDoe100 == Row(Txt_Kanawha, Txt_President, Txt_DEM, Txt_Jane_Doe, Txt_100)
Row_JohnRoe50  == Row(Txt_Kanawha, Txt_President, Txt_REP, Txt_John_Roe, Txt_50)

\* A row of a precinct file: the row with a precinct column in front
RowOfPrecinct(precinct, r) == <<[k |-> Hdr_precinct, v |-> precinct]>> \o r

\* The scenario rows, the first of them reported by two precincts, another
\* spelling of the county, and a row without a county
LedgerRows ==
    { Row_JaneDoe100, Row_JohnRoe50,
      RowOfPrecinct(Txt_1, Row_JaneDoe100),
      RowOfPrecinct(Txt_2, Row_JaneDoe100),
      Row(Txt_KANAWHA_CO, Txt_President, Txt_REP, Txt_John_Roe, Txt_10),
      Row(<<>>, Txt_President, Txt_DEM, Txt_Jane_Doe, Txt_10) }

\* One county file, and the precinct files of two counties
LedgerArgs ==
    { InputArgs(P2020county, 1),
      GlobArgs(<<P2020precinct, P2020kanawha>>, 1950, 1) }

\* Two contests over three counties, one of the counties in one contest only
MetaRows ==
    { Row(Txt_Boone, Txt_Governor, Txt_d, Txt_ann, Txt_5),
      Row(Txt_Kanawha, Txt_Governor, Txt_d, Txt_ann, Txt_5),
      Row(Txt_Gilmer, Txt_President, Txt_REP, Txt_bob, Txt_3),
      Row(Txt_Boone, Txt_President, Txt_REP, Txt_bob, Txt_3) }

MetaArgs ==
    { InputArgs(P2020county, 1), InputArgs(P2020county, 2),
      GlobArgs(<<P2020county, P2024county>>, 1950, 1),
      GlobArgs(<<P2020county, P2024county>>, 1950, 2) }

\* Files a glob may find, in the order sorted() gives them: county files of
\* 2016 and 2020, precinct files of 2020 and 2024, 2024/results.csv, and
\* 20201103__wv__precinct__county.csv
P2020both == Path(Txt_2020, Txt_2020, <<>>, TRUE, TRUE, TRUE)

GlobPool ==
    <<P2016county, P2020precinct, P2020county, P2020kanawha, P2020both,
      PParentYear, P2024precinct>>

\* The files of the pool at the places S, in the order of the pool
FoundAt(S) ==
    LET places == SelectSeq(AsSeq([i \in 1..Len(GlobPool) |-> i]), LAMBDA i : i \in S)
    IN  AsSeq([j \in 1..Len(places) |-> GlobPool[places[j]]])

SelectArgs ==
    {GlobArgs(FoundAt(S), min_year, 1) :
        S \in SUBSET (1..Len(GlobPool)), min_year \in {1950, 2020, 2024, 2025}}

SelectRows == { Row(Txt_Boone, Txt_Governor, Txt_d, Txt_ann, Txt_5) }

\* The rows of each universe, and the universes that keep the history
RowsOf(u) ==
    CASE u = "main"   -> MainRows
      [] u = "dedup"  -> DedupRows
      [] u = "idem"   -> IdemRows
      [] u = "filter" -> FilterRows
      [] u = "totals" -> TotalsRows
      [] u = "county" -> CountyRows
      [] u = "headers" -> HeaderRows
      [] u = "ledger" -> LedgerRows
      [] u = "meta" -> MetaRows
      [] u = "select" -> SelectRows
      [] OTHER        -> {}

Tracked(u) == u \in {"idem", "ledger"}

(***************************************************************************)
(* The run of main() as a state machine.                                   *)
(*                                                                         *)
(* args holds the parsed command line:                                     *)
(*   use_input   --input was given (input is then the single path)         *)
(*   discovered  the sorted matches of --input-glob                        *)
(*   min_year, min_counties_per_contest                                    *)
(*   reference   the names of the features of --counties-geojson, and      *)
(*   reference_exists  whether that file exists                            *)
(* universe names the set of rows the input files may hold (RowsOf) and    *)
(* tells whether the history variable is kept (Tracked); it never changes. *)
(***************************************************************************)
VARIABLES
    universe,               \* the name of the rows the files may hold
    args,
    county_lookup,
    input_paths,
    pc,                     \* "start", "files", "rows", "row", "done", "error",
                            \* or "classify" in the classifier's specification
    fi,                     \* index in input_paths of the file being read
    year,                   \* year of the file being read
    row,                    \* the row DictReader has just yielded
    outcome,                \* how the loop body left the row just processed:
                            \* "skipped", "duplicate", "accepted"; "" otherwise
    n_rows,                 \* rows read so far in the run
    grouped_by_year,
    contest_labels_by_year,
    county_name_by_key,
    seen_entries,
    output,                 \* the document written to args.output
    error,                  \* the exception that ended the run, "" if none
    history,                \* the <<fi, row>> pairs processed, when tracked
    probe                   \* [margin_pct, competitiveness] of the classifier

vars == <<universe, args, county_lookup, input_paths, pc, fi, year, row, outcome, n_rows,
          grouped_by_year, contest_labels_by_year, county_name_by_key,
          seen_entries, output, error, history, probe>>

accVars == <<grouped_by_year, contest_labels_by_year, county_name_by_key, seen_entries>>

Acc ==
    [grouped_by_year        |-> grouped_by_year,
     contest_labels_by_year |-> contest_labels_by_year,
     county_name_by_key     |-> county_name_by_key,
     seen_entries           |-> seen_entries]

MaxRows == 3
MaxRowsIdem == 4
MaxMarginPct == 10000

\* The number of rows a run reads at most
RowLimit(u) == IF u = "idem" THEN MaxRowsIdem ELSE MaxRows

NoRow == <<>>
NoProbe == [margin_pct |-> 0]

InitRun(U, A) ==
    /\ universe = U
    /\ args \in A
    /\ county_lookup = EmptyMap
    /\ input_paths = <<>>
    /\ pc = "start"
    /\ fi = 1
    /\ year = <<>>
    /\ row = NoRow
    /\ outcome = ""
    /\ n_rows = 0
    /\ grouped_by_year = EmptyMap
    /\ contest_labels_by_year = EmptyMap
    /\ county_name_by_key = EmptyMap
    /\ seen_entries = {}
    /\ output = NoOutput
    /\ error = ""
    /\ history = <<>>
    /\ probe = NoProbe

Fail(exc) ==
    /\ pc' = "error"
    /\ error' = exc

\* Lines 286-312: load the county lookup and settle the input paths
Start ==
    /\ pc = "start"
    /\ county_lookup' = IF args.reference_exists
                        THEN load_county_lookup(args.reference) ELSE EmptyMap
    /\ LET sel == IF args.use_input
                  THEN [raised |-> FALSE, paths |-> <<args.input>>]
                  ELSE SelectGlob(args.discovered, args.min_year)
       IN  IF sel.raised
           THEN Fail("ValueError") /\ UNCHANGED input_paths
           ELSE IF sel.paths = <<>>
           THEN Fail("FileNotFoundError") /\ UNCHANGED input_paths
           ELSE input_paths' = sel.paths /\ pc' = "files" /\ UNCHANGED error
    /\ UNCHANGED <<universe, args, fi, year, row, outcome, n_rows, accVars,
                   output, history, probe>>

\* Lines 323-327: the next input path is checked and opened
OpenFile ==
    /\ pc = "files"
    /\ fi <= Len(input_paths)
    /\ LET path == input_paths[fi]
           y    == infer_year_from_filename(path)
       IN  IF ~path.exists THEN Fail("FileNotFoundError") /\ UNCHANGED year
           ELSE IF y.raised THEN Fail("ValueError") /\ UNCHANGED year
           ELSE year' = y.value /\ pc' = "rows" /\ UNCHANGED error
    /\ UNCHANGED <<universe, args, county_lookup, input_paths, fi, row, outcome,
                   n_rows, accVars, output, history, probe>>

\* Line 328: csv.DictReader yields the next row of the file
ReadRow ==
    /\ pc = "rows"
    /\ n_rows < RowLimit(universe)
    /\ \E r \in RowsOf(universe) : row' = r
    /\ n_rows' = n_rows + 1
    /\ pc' = "row"
    /\ outcome' = ""
    /\ UNCHANGED <<universe, args, county_lookup, input_paths, fi, year,
                   accVars, output, error, history, probe>>

\* The loop body's effect on the state, given what IngestRow returned
Ingested(res) ==
    IF res.outcome = "raised"
    THEN /\ Fail("ValueError")
         /\ UNCHANGED <<row, outcome, accVars, history>>
    ELSE /\ grouped_by_year' = res.acc.grouped_by_year
         /\ contest_labels_by_year' = res.acc.contest_labels_by_year
         /\ county_name_by_key' = res.acc.county_name_by_key
         /\ seen_entries' = res.acc.seen_entries
         /\ history' = IF Tracked(universe)
                       THEN Append(history, <<fi, row>>)
                       ELSE history
         /\ row' = NoRow
         /\ outcome' = res.outcome
         /\ pc' = "rows"
         /\ UNCHANGED error

\* Lines 329-357: the body of the row loop
ProcessRow ==
    /\ pc = "row"
    /\ Ingested(IngestRow(Acc, input_paths[fi], year, row, county_lookup))
    /\ UNCHANGED <<universe, args, county_lookup, input_paths, fi, year, n_rows,
                   output, probe>>

\* The reader is exhausted: on to the next input path
CloseFile ==
    /\ pc = "rows"
    /\ fi' = fi + 1
    /\ pc' = "files"
    /\ outcome' = ""
    /\ UNCHANGED <<universe, args, county_lookup, input_paths, year, row, n_rows,
                   accVars, output, error, history, probe>>

\* Lines 359-449: aggregate and write the output document
WriteOutput ==
    /\ pc = "files"
    /\ fi > Len(input_paths)
    /\ output' = BuildOutput(Acc, args.min_counties_per_contest)
    /\ pc' = "done"
    /\ UNCHANGED <<universe, args, county_lookup, input_paths, fi, year, row,
                   outcome, n_rows, accVars, error, history, probe>>

Next ==
    \/ Start
    \/ OpenFile
    \/ ReadRow
    \/ ProcessRow
    \/ CloseFile
    \/ WriteOutput

Init == InitRun("main", MainArgs)

Spec == Init /\ [][Next]_vars

\* Runs over files that repeat records
InitDedup == InitRun("dedup", DedupArgs)

SpecDedup == InitDedup /\ [][Next]_vars

\* Runs over two files, with the rows of each file remembered
InitIdem == InitRun("idem", IdemArgs)

SpecIdem == InitIdem /\ [][Next]_vars

\* Runs over contests of one, two or three counties
InitFilter == InitRun("filter", FilterArgs)

SpecFilter == InitFilter /\ [][Next]_vars

\* Runs over one contest with several records per county
InitTotals == InitRun("totals", TotalsArgs)

SpecTotals == InitTotals /\ [][Next]_vars

\* Runs over the spellings of the counties, with and without the reference
InitCounty == InitRun("county", CountyArgs)

SpecCounty == InitCounty /\ [][Next]_vars

\* compute_competitiveness applied to one margin_pct (line 407)
InitClassify ==
    /\ universe = "classify"
    /\ args = InputArgs(P2020county, 1)
    /\ county_lookup = EmptyMap
    /\ input_paths = <<>>
    /\ pc = "classify"
    /\ fi = 1
    /\ year = <<>>
    /\ row = NoRow
    /\ outcome = ""
    /\ n_rows = 0
    /\ grouped_by_year = EmptyMap
    /\ contest_labels_by_year = EmptyMap
    /\ county_name_by_key = EmptyMap
    /\ seen_entries = {}
    /\ output = NoOutput
    /\ error = ""
    /\ history = <<>>
    /\ probe \in {[margin_pct |-> m] : m \in (0 - MaxMarginPct)..MaxMarginPct}

Classify ==
    /\ pc = "classify"
    /\ probe' = [margin_pct      |-> probe.margin_pct,
                 competitiveness |-> compute_competitiveness(probe.margin_pct)]
    /\ pc' = "classified"
    /\ UNCHANGED <<universe, args, county_lookup, input_paths, fi, year, row,
                   outcome, n_rows, accVars, output, error, history>>

NextClassify == Classify

SpecClassify == InitClassify /\ [][NextClassify]_vars

\* Runs whose rows are remembered, over one file or two
InitLedger == InitRun("ledger", LedgerArgs)

SpecLedger == InitLedger /\ [][Next]_vars

\* Runs whose contests and years survive the county minimum or not
InitMeta == InitRun("meta", MetaArgs)

SpecMeta == InitMeta /\ [][Next]_vars

\* Runs in glob mode over the files a glob may find
InitSelect == InitRun("select", SelectArgs)

SpecSelect == InitSelect /\ [][Next]_vars

\* Runs over files whose header spells the column names differently
InitHeaders == InitRun("headers", HeaderArgs)

SpecHeaders == InitHeaders /\ [][Next]_vars

\* normalize_candidate_name applied to one raw candidate text (line 335)
InitCandidate ==
    /\ universe = "candidate"
    /\ args = InputArgs(P2020county, 1)
    /\ county_lookup = EmptyMap
    /\ input_paths = <<>>
    /\ pc = "candidate"
    /\ fi = 1
    /\ year = <<>>
    /\ row = NoRow
    /\ outcome = ""
    /\ n_rows = 0
    /\ grouped_by_year = EmptyMap
    /\ contest_labels_by_year = EmptyMap
    /\ county_name_by_key = EmptyMap
    /\ seen_entries = {}
    /\ output = NoOutput
    /\ error = ""
    /\ history = <<>>
    /\ probe \in {[raw |-> name] : name \in CandidateNames}

NormalizeName ==
    /\ pc = "candidate"
    /\ probe' = [raw       |-> probe.raw,
                 candidate |-> normalize_candidate_name(probe.raw)]
    /\ pc' = "normalized"
    /\ UNCHANGED <<universe, args, county_lookup, input_paths, fi, year, row,
                   outcome, n_rows, accVars, output, error, history>>

NextCandidate == NormalizeName

SpecCandidate == InitCandidate /\ [][NextCandidate]_vars

\* extract_votes on its own: probe is [row] and then [row, votes]
InitVotes ==
    /\ universe = "votes"
    /\ args = InputArgs(P2020county, 1)
    /\ county_lookup = EmptyMap
    /\ input_paths = <<>>
    /\ pc = "votes"
    /\ fi = 1
    /\ year = <<>>
    /\ row = NoRow
    /\ outcome = ""
    /\ n_rows = 0
    /\ grouped_by_year = EmptyMap
    /\ contest_labels_by_year = EmptyMap
    /\ county_name_by_key = EmptyMap
    /\ seen_entries = {}
    /\ output = NoOutput
    /\ error = ""
    /\ history = <<>>
    /\ probe \in {[row |-> r] : r \in VoteRows}

ExtractVotes ==
    /\ pc = "votes"
    /\ probe' = [row |-> probe.row, votes |-> extract_votes(probe.row)]
    /\ pc' = "extracted"
    /\ UNCHANGED <<universe, args, county_lookup, input_paths, fi, year, row,
                   outcome, n_rows, accVars, output, error, history>>

NextVotes == ExtractVotes

SpecVotes == InitVotes /\ [][NextVotes]_vars

(***************************************************************************)
(* Properties of the run.                                                  *)
(***************************************************************************)
\* Every CountyContestResult of a written document
ResultsIn(doc) ==
    UNION {UNION {UNION {
        {doc.results_by_year[y][ct][k].results[c] :
            c \in DOMAIN doc.results_by_year[y][ct][k].results} :
        k \in DOMAIN doc.results_by_year[y][ct]} :
        ct \in DOMAIN doc.results_by_year[y]} :
        y \in DOMAIN doc.results_by_year}

OutputResults == IF output.written THEN ResultsIn(output) ELSE {}

\* Every accepted entry <<party, candidate, votes>> of the grouped records
AcceptedEntries ==
    UNION {{grouped_by_year[g][i] : i \in 1..Len(grouped_by_year[g])} :
              g \in DOMAIN grouped_by_year}

\* C1: in every CountyContestResult of the output,
\* dem_votes + rep_votes + other_votes = total_votes.
C1_VotesAddUp ==
    \A r \in OutputResults :
        r.dem_votes + r.rep_votes + r.other_votes = r.total_votes

\* C9: every accepted vote record has a non-negative votes value.
C9_VotesNonNegative ==
    \A e \in AcceptedEntries : e[3] >= 0

\* C10: in every CountyContestResult of the output, margin_pct lies in
\* [-100, 100] (in hundredths: [-10000, 10000]).
C10_MarginPctInRange ==
    \A r \in OutputResults : r.margin_pct >= -10000 /\ r.margin_pct <= 10000

\* The row in hand is one the row filters exclude: county unresolved, office
\* not tracked, or candidate empty after normalisation
SoftSkipFields(n) ==
    \/ n.county = <<>>
    \/ n.office \notin DOMAIN OFFICE_MAP
    \/ n.candidate = ""

SoftSkipRow ==
    /\ row # NoRow
    /\ SoftSkipFields(NormalizedRow(input_paths[fi], row, county_lookup))

\* C7: a row that the soft filters exclude never aborts the run, whatever
\* its votes field holds.
C7_SoftSkipNeverAborts ==
    SoftSkipRow => pc # "error"

\* The text of the votes column extract_votes reads: the first present of
\* votes / total votes / total_votes among the lowered header names
VotesText(lowered) ==
    IF H_votes \in DOMAIN lowered THEN lowered[H_votes]
    ELSE IF H_total_votes \in DOMAIN lowered THEN lowered[H_total_votes]
    ELSE IF H_total_votes_u \in DOMAIN lowered THEN lowered[H_total_votes_u]
    ELSE <<>>

\* A decimal number: an optional sign, digits and at most one period, with
\* a digit somewhere
NumericBody(b) ==
    /\ \A i \in 1..Len(b) : IsDigit(b[i]) \/ b[i] = "."
    /\ \E i \in 1..Len(b) : IsDigit(b[i])
    /\ Cardinality({i \in 1..Len(b) : b[i] = "."}) <= 1

NumericText(s) ==
    IF s # <<>> /\ Head(s) \in {"+", "-"} THEN NumericBody(Tail(s)) ELSE NumericBody(s)

\* The field is neither empty, a lone "-" or "--", nor numeric once the
\* thousands separators are taken out
CorruptVotes(field) ==
    /\ field # <<>>
    /\ RemoveChar(field, ",") \notin {<<"-">>, <<"-", "-">>}
    /\ ~NumericText(Strip(RemoveChar(field, ",")))

CorruptVotesRow == row # NoRow /\ CorruptVotes(Strip(VotesText(Lowered(row))))

YearKnown(path) == path.name_year # <<>> \/ path.parent_year # <<>>

\* The paths the run has opened or is about to have read from
OpenedPaths ==
    {input_paths[i] : i \in {j \in 1..Len(input_paths) :
                                j < fi \/ (j = fi /\ pc \in {"rows", "row"})}}

\* The run got past a point only if no fatal condition held there
NoFatalBehind ==
    /\ pc \notin {"start", "error"} =>
          /\ input_paths # <<>>
          /\ ~args.use_input =>
                \A i \in 1..Len(args.discovered) : YearKnown(args.discovered[i])
    /\ pc # "error" => \A p \in OpenedPaths : p.exists /\ YearKnown(p)
    /\ pc # "error" => error = ""
    /\ output.written => pc = "done"
    /\ pc = "error" => ~output.written /\ error # ""

\* A step taken with a corrupt votes field in hand aborts the run
CorruptVotesAbort ==
    (pc = "row" /\ CorruptVotesRow) =>
        (pc' = "error" /\ error' = "ValueError" /\ ~output'.written)

\* C8: a fatal error (no input files, a missing input file, a filename
\* without a year, a corrupt votes field) aborts the run, and an aborted run
\* writes no output document, however much was ingested before the error.
C8_FatalLeavesNoOutput ==
    []NoFatalBehind /\ [][CorruptVotesAbort]_vars

\* C8: the second input path is missing after the first one was ingested
C8_Witness_MissingFileAfterIngest ==
    /\ pc = "error" /\ error = "FileNotFoundError"
    /\ fi = 2 /\ seen_entries # {} /\ ~output.written

(***************************************************************************)
(* De-duplication (SpecDedup).                                             *)
(***************************************************************************)
\* The tuples (year, contest_type, county_key, party, candidate, votes) of
\* the records accepted so far
AcceptedTuplesOf(g) ==
    UNION {{<<k[1], k[2], k[3], g[k][i][1], g[k][i][2], g[k][i][3]>> :
                i \in 1..Len(g[k])} : k \in DOMAIN g}

\* The row in hand passes the filters and its votes field parses
RecordInHand ==
    /\ pc = "row"
    /\ ~NormalizedRow(input_paths[fi], row, county_lookup).votes.raised
    /\ ~RowSkipped(NormalizedRow(input_paths[fi], row, county_lookup))

\* The tuple of the normalised record in hand
TupleOf(n) ==
    <<year, OFFICE_MAP[n.office][1], county_key(n.county), n.party, n.candidate,
      n.votes.value>>

TupleInHand == TupleOf(NormalizedRow(input_paths[fi], row, county_lookup))

\* The list of the group of tuple t in g
EntriesOf(g, t) ==
    IF <<t[1], t[2], t[3]>> \in DOMAIN g THEN g[<<t[1], t[2], t[3]>>] ELSE <<>>

\* A record is discarded exactly when its tuple was accepted before;
\* otherwise it is appended to its group and nothing else changes
DedupStep(t) ==
    IF t \in AcceptedTuplesOf(grouped_by_year)
    THEN outcome' = "duplicate" /\ grouped_by_year' = grouped_by_year
    ELSE /\ outcome' = "accepted"
         /\ EntriesOf(grouped_by_year', t) =
                EntriesOf(grouped_by_year, t) \o << <<t[4], t[5], t[6]>> >>
         /\ AcceptedTuplesOf(grouped_by_year') =
                AcceptedTuplesOf(grouped_by_year) \cup {t}

DedupOnRecord == RecordInHand => DedupStep(TupleInHand)

\* The sum of the votes of the accepted tuples of one county group
RECURSIVE SumOfSet(_)
SumOfSet(S) ==
    IF S = {} THEN 0
    ELSE LET t == CHOOSE x \in S : TRUE IN t[6] + SumOfSet(S \ {t})

\* Every accepted record is counted in the total of its county
EveryRecordSummed ==
    pc = "done" =>
        \A y \in DOMAIN output.results_by_year :
          \A ct \in DOMAIN output.results_by_year[y] :
            \A ck \in GroupedCounties(grouped_by_year, y, ct) :
                LET name == CountyDisplay(county_name_by_key, ck)
                    doc  == output.results_by_year[y][ct][ContestKey(ct, y)]
                IN  /\ name \in DOMAIN doc.results
                    /\ doc.results[name].total_votes =
                          SumOfSet({t \in AcceptedTuplesOf(grouped_by_year) :
                                       t[1] = y /\ t[2] = ct /\ t[3] = ck})

\* C2: across all the files of a run, a normalised record is discarded if and
\* only if its exact tuple (year, contest_type, county_key, party, candidate,
\* votes) was accepted earlier; records that differ in the votes only are
\* both accepted, and every accepted record is summed into its county total.
C2_DedupExactTuple ==
    [][DedupOnRecord]_vars /\ []EveryRecordSummed

\* C2: a record of the second file was discarded as a duplicate while two
\* accepted records of its group differ in the votes only
C2_Witness_DuplicateAcrossFiles ==
    /\ outcome = "duplicate" /\ fi = 2
    /\ \E s \in AcceptedTuplesOf(grouped_by_year), t \in AcceptedTuplesOf(grouped_by_year) :
          /\ s[6] # t[6]
          /\ \A i \in 1..5 : s[i] = t[i]

\* The row in hand is one the loop drops: it fails a filter of lines
\* 338-348, or its tuple is in the seen set
RowDropped ==
    /\ pc = "row"
    /\ LET n == NormalizedRow(input_paths[fi], row, county_lookup)
       IN  /\ ~n.votes.raised
           /\ IF RowSkipped(n) THEN TRUE ELSE TupleOf(n) \in seen_entries

FrameOnDroppedRow ==
    RowDropped =>
        /\ pc' = "rows"
        /\ outcome' \in {"skipped", "duplicate"}
        /\ UNCHANGED <<seen_entries, grouped_by_year, contest_labels_by_year,
                       county_name_by_key>>

\* C27: a row that is skipped (no county, unmapped office, empty candidate)
\* or discarded as an exact duplicate leaves the seen set, the grouped
\* entries, the contest labels and the county names as they were.
C27_DroppedRowChangesNothing == [][FrameOnDroppedRow]_vars

\* C27: the second row of the first file was discarded as a duplicate of the
\* one record accepted so far
C27_Witness_DuplicateInFirstFile ==
    /\ outcome = "duplicate" /\ fi = 1 /\ pc = "rows" /\ n_rows = 2
    /\ Cardinality(seen_entries) = 1
    /\ Cardinality(DOMAIN county_name_by_key) = 1

\* No entry list holds a triple twice
NoRepeatedEntry ==
    \A k \in DOMAIN grouped_by_year :
        \A i, j \in 1..Len(grouped_by_year[k]) :
            grouped_by_year[k][i] = grouped_by_year[k][j] => i = j

SeenMatchesGrouped ==
    /\ seen_entries = AcceptedTuplesOf(grouped_by_year)
    /\ NoRepeatedEntry

\* C28: at every point of the row stream the seen set holds exactly the
\* tuples of the grouped entries, every tuple being one entry of its (year,
\* contest, county) list and no list holding a triple twice, and the seen
\* set only grows.
C28_SeenSetMirrorsGrouped ==
    []SeenMatchesGrouped /\ [][seen_entries \subseteq seen_entries']_vars

\* C28: two entries in one list and lists of two years
C28_Witness_TwoYearsTwoEntries ==
    /\ \E k \in DOMAIN grouped_by_year : Len(grouped_by_year[k]) = 2
    /\ Cardinality(DOMAIN grouped_by_year) = 2
    /\ Cardinality(seen_entries) = 3

(***************************************************************************)
(* Idempotence of ingestion (SpecIdem).                                    *)
(***************************************************************************)
\* The rows read from the i-th input file
RowsOfFile(i) ==
    LET sel == SelectSeq(history, LAMBDA h : h[1] = i)
    IN  AsSeq([j \in 1..Len(sel) |-> sel[j][2]])

\* The run has read two files with identical rows and has written its output
TwoFilesSameRows ==
    /\ pc = "done"
    /\ Len(input_paths) = 2
    /\ RowsOfFile(2) = RowsOfFile(1)

SameYear ==
    infer_year_from_filename(input_paths[1]).value =
        infer_year_from_filename(input_paths[2]).value

SameInferredCounty ==
    infer_county_from_filename(input_paths[1]) =
        infer_county_from_filename(input_paths[2])

\* The output is the one of the run over the first file alone
OutputAsOnce ==
    output = RunOnce(input_paths[1], RowsOfFile(1), county_lookup,
                     args.min_counties_per_contest)

\* C3 as stated: a run over a file listed twice, or over two files of the same
\* year with identical rows, writes the document of the run over the file
\* once.
C3_IdempotentSameYear ==
    (TwoFilesSameRows /\ SameYear) => OutputAsOnce

\* C3: a run over two files of the same year with identical rows whose names
\* give the same county (as when one file is found twice) writes the
\* document of the run over the first file alone.
C3_IdempotentSameYearSameCounty ==
    (TwoFilesSameRows /\ SameYear /\ SameInferredCounty) => OutputAsOnce

\* C3: the same file was read twice, with at least two rows of which one
\* was accepted, and a document with results was written
C3_Witness_FileReadTwice ==
    /\ TwoFilesSameRows
    /\ input_paths[1] = input_paths[2]
    /\ Len(RowsOfFile(1)) >= 2
    /\ seen_entries # {}
    /\ DOMAIN output.results_by_year # {}

(***************************************************************************)
(* Contest filtering (SpecFilter).                                         *)
(***************************************************************************)
ContestTypes == {ContestTypesSorted[i] : i \in 1..Len(ContestTypesSorted)}

\* The county keys with an accepted record in the group (year, ct)
CountiesWithRecords(y, ct) ==
    {k[3] : k \in {x \in DOMAIN grouped_by_year :
                      x[1] = y /\ x[2] = ct /\ grouped_by_year[x] # <<>>}}

ContestPresent(y, ct) ==
    /\ y \in DOMAIN output.results_by_year
    /\ ct \in DOMAIN output.results_by_year[y]

\* The counties reported for a present contest
CountiesReported(y, ct) ==
    DOMAIN output.results_by_year[y][ct][ContestKey(ct, y)].results

\* C6: a (year, contest_type) group with accepted records is in
\* results_by_year if and only if its number of distinct county keys is at
\* least the configured minimum, and then with every one of its counties; a
\* pair without records is absent.
C6_ContestFilter ==
    pc = "done" =>
        \A y \in GroupedYears(grouped_by_year) \cup DOMAIN output.results_by_year :
          \A ct \in ContestTypes :
            LET keys == CountiesWithRecords(y, ct)
            IN  IF keys = {} THEN ~ContestPresent(y, ct)
                ELSE /\ ContestPresent(y, ct) <=>
                            Cardinality(keys) >= args.min_counties_per_contest
                     /\ ContestPresent(y, ct) =>
                            CountiesReported(y, ct) =
                                {CountyDisplay(county_name_by_key, k) : k \in keys}

\* C6: with a minimum of two, a contest of two counties is present with both
\* and a contest of one county is absent
C6_Witness_AtAndBelowMinimum ==
    /\ pc = "done"
    /\ args.min_counties_per_contest = 2
    /\ \E y \in GroupedYears(grouped_by_year) :
        \E a \in ContestTypes, b \in ContestTypes :
          /\ Cardinality(CountiesWithRecords(y, a)) = 2
          /\ ContestPresent(y, a)
          /\ Cardinality(CountiesReported(y, a)) = 2
          /\ Cardinality(CountiesWithRecords(y, b)) = 1
          /\ ~ContestPresent(y, b)

(***************************************************************************)
(* The classifier (SpecClassify).                                          *)
(***************************************************************************)
\* The table of the tiers by absolute margin, in hundredths of a point:
\* <<prefix of the category, tier of the code>>
DocumentedBand(a) ==
    IF a >= 4000 THEN <<"Annihilation", "ANNIHILATION">>
    ELSE IF a >= 3000 THEN <<"Dominant", "DOMINANT">>
    ELSE IF a >= 2000 THEN <<"Stronghold", "STRONGHOLD">>
    ELSE IF a >= 1000 THEN <<"Safe", "SAFE">>
    ELSE IF a > 550 THEN <<"Likely", "LIKELY">>
    ELSE IF a > 99 THEN <<"Lean", "LEAN">>
    ELSE IF a >= 50 THEN <<"Tilt", "TILT">>
    ELSE <<"Tossup", "TOSSUP">>

DocumentedCategory(m) ==
    LET band == DocumentedBand(Abs(m))
    IN  IF band[2] = "TOSSUP" THEN "Tossup"
        ELSE IF m > 0 THEN band[1] \o " Democratic" ELSE band[1] \o " Republican"

DocumentedCode(m) ==
    LET band == DocumentedBand(Abs(m))
    IN  IF band[2] = "TOSSUP" THEN "T_TOSSUP"
        ELSE IF m > 0 THEN "D_" \o band[2] ELSE "R_" \o band[2]

\* C4: compute_competitiveness gives every margin_pct of [-100, 100] the
\* category and the code of the documented table: by absolute margin >=40
\* Annihilation, >=30 Dominant, >=20 Stronghold, >=10 Safe, >5.5 Likely,
\* >0.99 Lean, >=0.5 Tilt, otherwise Tossup; Democratic and D_ for positive
\* margins, Republican and R_ for negative ones, Tossup and T_TOSSUP in the
\* lowest band.
C4_ClassifierMatchesTable ==
    pc = "classified" =>
        /\ probe.competitiveness.category = DocumentedCategory(probe.margin_pct)
        /\ probe.competitiveness.code = DocumentedCode(probe.margin_pct)

\* C4: -39.99 was classified Dominant Republican
C4_Witness_JustBelowForty ==
    /\ pc = "classified"
    /\ probe.margin_pct = -3999
    /\ probe.competitiveness.category = "Dominant Republican"
    /\ probe.competitiveness.code = "R_DOMINANT"

\* The tier each threshold opens, by the threshold in hundredths
ThresholdTier ==
    [a \in {4000, 3000, 2000, 1000, 550, 99, 50} |->
        CASE a = 4000 -> "ANNIHILATION"
          [] a = 3000 -> "DOMINANT"
          [] a = 2000 -> "STRONGHOLD"
          [] a = 1000 -> "SAFE"
          [] a = 550  -> "LIKELY"
          [] a = 99   -> "LEAN"
          [] OTHER    -> "TILT"]

SideOf(m) == IF m > 0 THEN "D_" ELSE "R_"

\* C5 as stated: an absolute margin equal to 40, 30, 20, 10, 5.5, 0.99 or 0.5
\* is classified into the tier that threshold opens, on both sides.
C5_EveryThresholdInclusive ==
    (pc = "classified" /\ Abs(probe.margin_pct) \in DOMAIN ThresholdTier) =>
        probe.competitiveness.code =
            SideOf(probe.margin_pct) \o ThresholdTier[Abs(probe.margin_pct)]

\* C5: an absolute margin equal to 40, 30, 20, 10 or 0.5 is classified into
\* the tier that threshold opens, on both sides; 5.5 and 0.99 are exclusive
\* bounds: exactly 5.5 is Lean and exactly 0.99 is Tilt.
C5_ThresholdsAsCoded ==
    (pc = "classified" /\ Abs(probe.margin_pct) \in DOMAIN ThresholdTier) =>
        probe.competitiveness.code =
            SideOf(probe.margin_pct) \o
                (CASE Abs(probe.margin_pct) = 550 -> "LEAN"
                   [] Abs(probe.margin_pct) = 99  -> "TILT"
                   [] OTHER -> ThresholdTier[Abs(probe.margin_pct)])

\* C5: -5.5 was classified Lean Republican
C5_Witness_ExactlyFiveAndHalf ==
    /\ pc = "classified"
    /\ probe.margin_pct = -550
    /\ probe.competitiveness.code = "R_LEAN"
    /\ probe.competitiveness.category = "Lean Republican"

(***************************************************************************)
(* The county totals (SpecTotals).                                         *)
(***************************************************************************)
\* C11: in every CountyContestResult the winner follows the sign of margin
\* (DEM iff margin > 0, REP iff margin < 0, TIE iff margin = 0), and a
\* two-party total of zero comes with winner TIE and margin_pct 0.00.
C11_WinnerFollowsMargin ==
    \A r \in OutputResults :
        /\ r.winner = "DEM" <=> r.margin > 0
        /\ r.winner = "REP" <=> r.margin < 0
        /\ r.winner = "TIE" <=> r.margin = 0
        /\ r.two_party_total = 0 => (r.winner = "TIE" /\ r.margin_pct = 0)

\* The codes of the two directions
DirectionCodes(side) ==
    {side \o t : t \in {"ANNIHILATION", "DOMINANT", "STRONGHOLD", "SAFE",
                         "LIKELY", "LEAN", "TILT", "TOSSUP"}}

\* C23: in every CountyContestResult a code that starts with D_ comes with
\* winner DEM, a code that starts with R_ with winner REP, and winner TIE
\* comes with margin_pct 0.00, category Tossup and code T_TOSSUP.
C23_ClassificationAgreesWithWinner ==
    \A r \in OutputResults :
        /\ r.competitiveness.code \in DirectionCodes("D_") => r.winner = "DEM"
        /\ r.competitiveness.code \in DirectionCodes("R_") => r.winner = "REP"
        /\ r.winner = "TIE" =>
              /\ r.margin_pct = 0
              /\ r.competitiveness.category = "Tossup"
              /\ r.competitiveness.code = "T_TOSSUP"

\* C12: in every CountyContestResult two_party_total = dem_votes + rep_votes,
\* margin = dem_votes - rep_votes, and margin_pct is the hundredth nearest to
\* margin / two_party_total * 100 (0.00 when two_party_total is 0).
C12_MarginPctRecomputes ==
    \A r \in OutputResults :
        /\ r.two_party_total = r.dem_votes + r.rep_votes
        /\ r.margin = r.dem_votes - r.rep_votes
        /\ IF r.two_party_total = 0 THEN r.margin_pct = 0
           ELSE 2 * Abs(r.margin_pct * r.two_party_total - 10000 * r.margin)
                    <= Abs(r.two_party_total)

\* C12: 5 Democratic and 7 Republican votes gave -16.67, rounded from
\* -16.666...
C12_Witness_RoundedMargin ==
    \E r \in OutputResults :
        /\ r.dem_votes = 5 /\ r.rep_votes = 7
        /\ r.two_party_total = 12 /\ r.margin = -2
        /\ r.margin_pct = -1667

\* The party code the alias table documents for a raw party text
DocumentedPartyCode(raw) ==
    LET p == Join(normalize_text(raw))
    IN  CASE p \in {"D", "DEM", "DEMOCRAT", "DEMOCRATIC"} -> "DEM"
          [] p \in {"R", "REP", "REPUBLICAN"} -> "REP"
          [] p \in {"LBN", "LIB", "LIBERTARIAN"} -> "LIB"
          [] p \in {"MTN", "MOUNTAIN"} -> "MTN"
          [] p \in {"CST", "CONSTITUTION"} -> "CST"
          [] p \in {"IND", "INDEPENDENT"} -> "IND"
          [] p \in {"NON", "NPA", "NO AFFILIATION"} -> "NPA"
          [] OTHER -> p

\* A record is kept under the documented code of its party, whatever the
\* party is
PartyKeptOnRecord ==
    RecordInHand =>
        /\ outcome' \in {"accepted", "duplicate"}
        /\ <<TupleInHand[1], TupleInHand[2], TupleInHand[3],
             DocumentedPartyCode(RowGet(row, H_party)),
             TupleInHand[5], TupleInHand[6]>>
                \in AcceptedTuplesOf(grouped_by_year')

PartyLabel(code) == IF code # "" THEN code ELSE "NONPARTISAN"

\* The accepted tuples of the county group (y, ct, ck)
TuplesOfCounty(y, ct, ck) ==
    {t \in AcceptedTuplesOf(grouped_by_year) : t[1] = y /\ t[2] = ct /\ t[3] = ck}

\* The sum of the values of a mapping to integers
RECURSIVE SumOfValues(_, _)
SumOfValues(f, keys) ==
    IF keys = {} THEN 0
    ELSE LET k == CHOOSE x \in keys : TRUE IN f[k] + SumOfValues(f, keys \ {k})

\* The CountyContestResult written for the county group (y, ct, ck)
ResultOfCounty(y, ct, ck) ==
    output.results_by_year[y][ct][ContestKey(ct, y)]
        .results[CountyDisplay(county_name_by_key, ck)]

\* The county groups of the contests that were written
WrittenCounties ==
    {k \in DOMAIN grouped_by_year :
        /\ output.written
        /\ k[1] \in DOMAIN output.results_by_year
        /\ k[2] \in DOMAIN output.results_by_year[k[1]]}

AllPartiesSummed ==
    \A k \in WrittenCounties :
        LET r      == ResultOfCounty(k[1], k[2], k[3])
            tuples == TuplesOfCounty(k[1], k[2], k[3])
        IN  /\ DOMAIN r.all_parties = {PartyLabel(t[4]) : t \in tuples}
            /\ \A c \in DOMAIN r.all_parties :
                  r.all_parties[c] = SumOfSet({t \in tuples : PartyLabel(t[4]) = c})
            /\ SumOfValues(r.all_parties, DOMAIN r.all_parties) = r.total_votes
            /\ "DEM" \in DOMAIN r.all_parties => r.all_parties["DEM"] = r.dem_votes
            /\ "REP" \in DOMAIN r.all_parties => r.all_parties["REP"] = r.rep_votes

\* C18: every party alias is stored under its canonical code and a code
\* outside the table under itself, the party never causes a row to be
\* dropped, and in every CountyContestResult all_parties[c] is the sum of the
\* votes of the accepted records of party c (no party: NONPARTISAN), so that
\* the values add up to total_votes and the DEM and REP values equal
\* dem_votes and rep_votes.
C18_PartyVotesPreserved ==
    [][PartyKeptOnRecord]_vars /\ []AllPartiesSummed

\* C18: a county was written with votes under DEM, under a code outside the
\* table and under NONPARTISAN
C18_Witness_UnknownAndNoParty ==
    \E k \in WrittenCounties :
        LET r == ResultOfCounty(k[1], k[2], k[3])
        IN  /\ DOMAIN r.all_parties = {"DEM", "XYZ", "NONPARTISAN"}
            /\ r.all_parties["XYZ"] = 3
            /\ r.all_parties["NONPARTISAN"] = 5
            /\ r.total_votes = r.all_parties["DEM"] + 8

\* The votes of candidate c over the accepted records of party p in a county
VotesOfCandidate(tuples, p, c) ==
    SumOfSet({t \in tuples : t[4] = p /\ t[5] = c})

\* name is the candidate of party p with the most votes over all of the
\* candidate's records in the county, "" when the party has no record
IsStandardBearer(tuples, p, name) ==
    LET cands == {t[5] : t \in {x \in tuples : x[4] = p}}
    IN  IF cands = {} THEN name = ""
        ELSE /\ name \in cands
             /\ \A c \in cands :
                    VotesOfCandidate(tuples, p, c) <= VotesOfCandidate(tuples, p, name)

\* C19: in every CountyContestResult dem_candidate is the DEM candidate with
\* the most votes in the county, all of the candidate's accepted records
\* counted ("" without a DEM record), and rep_candidate likewise for REP.
C19_StandardBearerByTotal ==
    \A k \in WrittenCounties :
        LET r      == ResultOfCounty(k[1], k[2], k[3])
            tuples == TuplesOfCounty(k[1], k[2], k[3])
        IN  /\ IsStandardBearer(tuples, "DEM", r.dem_candidate)
            /\ IsStandardBearer(tuples, "REP", r.rep_candidate)

(***************************************************************************)
(* County names (SpecCounty).                                              *)
(***************************************************************************)
\* The county text of the row in hand: the column, or the file name
CountyInHand ==
    IF Strip(RowGet(row, H_county)) # <<>> THEN Strip(RowGet(row, H_county))
    ELSE infer_county_from_filename(input_paths[fi])

\* The alphabetic-only lowercase token of a name
TokenOf(name) == Join(county_norm_token(name))

\* The documented substitution of the known misspellings
DocumentedAlias(token) ==
    CASE token = "glimer" -> "gilmer"
      [] token \in {"pocohontas", "pocohantas"} -> "pocahontas"
      [] OTHER -> token

ReferenceSet == {args.reference[i] : i \in 1..Len(args.reference)}

\* The reference names whose token is the de-aliased token of the input
ReferenceMatches(raw) ==
    {name \in ReferenceSet :
        TokenOf(name) = DocumentedAlias(TokenOf(normalize_county_name(raw)))}

\* With a reference, a row is stored under the matching reference name and
\* is excluded when no reference name matches
ResolvedOnRow ==
    (pc = "row" /\ DOMAIN county_lookup # {}) =>
        IF ReferenceMatches(CountyInHand) = {}
        THEN outcome' = "skipped" /\ UNCHANGED accVars
        ELSE /\ outcome' \in {"accepted", "duplicate"}
             /\ \E name \in ReferenceMatches(CountyInHand) :
                  /\ county_key(name) \in DOMAIN county_name_by_key'
                  /\ county_name_by_key'[county_key(name)] = name
                  /\ <<year, "governor", county_key(name)>> \in DOMAIN grouped_by_year'

\* With a reference, every county name of the output is a reference name
OutputNamesInReference ==
    DOMAIN county_lookup # {} =>
        /\ \A k \in DOMAIN county_name_by_key : county_name_by_key[k] \in ReferenceSet
        /\ \A r \in OutputResults : r.county \in ReferenceSet

\* C15: with a non-empty county reference, canonicalize_county_name gives the
\* reference name whose alphabetic-only lowercase token equals the input's
\* token after the alias substitution (glimer -> gilmer, pocohontas and
\* pocohantas -> pocahontas) and nothing for any other input, whose row is
\* excluded; every county name of the output is a name of the reference.
C15_ResolvedAgainstReference ==
    [][ResolvedOnRow]_vars /\ []OutputNamesInReference

\* C15: with the reference, the misspelt Glimer row was written under Gilmer
\* while another row of the run was left out
C15_Witness_AliasResolved ==
    /\ pc = "done" /\ DOMAIN county_lookup # {}
    /\ n_rows = 2 /\ Cardinality(seen_entries) = 1
    /\ \E r \in OutputResults : r.county = Txt_Gilmer /\ r.total_votes = 5

Misspelt(name) == TokenOf(name) \in {"glimer", "pocohontas", "pocohantas"}

\* C16: with or without a county reference, no county key and no county name
\* of the output is one of the known misspellings, and rows that spell one
\* county differently are under one county key.
C16_NoRawSpelling ==
    /\ \A k \in DOMAIN grouped_by_year : ~Misspelt(k[3])
    /\ \A k \in DOMAIN county_name_by_key : ~Misspelt(county_name_by_key[k])
    /\ \A r \in OutputResults : ~Misspelt(r.county)
    /\ \A j \in DOMAIN grouped_by_year, k \in DOMAIN grouped_by_year :
          (/\ j[1] = k[1] /\ j[2] = k[2]
           /\ DocumentedAlias(TokenOf(j[3])) = DocumentedAlias(TokenOf(k[3])))
              => j = k

\* C17: without a county reference the display name of a county is its name
\* without the COUNTY suffix in title case, the letter after Mc a capital,
\* whatever the casing of the input (the key k is that name in upper case).
C17_TitleCaseDisplayName ==
    ~args.reference_exists =>
        \A k \in DOMAIN county_name_by_key :
            county_name_by_key[k] = FixMc(Title(k))

(***************************************************************************)
(* Column names (SpecHeaders).                                             *)
(***************************************************************************)
\* The row with every column name trimmed and in lower case
CanonicalHeaders(r) ==
    AsSeq([i \in 1..Len(r) |-> [k |-> Lower(Strip(r[i].k)), v |-> r[i].v]])

\* The effect of the loop body is the one IngestRow has on res
IngestedAs(res) ==
    IF res.outcome = "raised" THEN pc' = "error"
    ELSE /\ outcome' = res.outcome
         /\ grouped_by_year' = res.acc.grouped_by_year
         /\ county_name_by_key' = res.acc.county_name_by_key
         /\ seen_entries' = res.acc.seen_entries

HeadersTolerated ==
    pc = "row" =>
        IngestedAs(IngestRow(Acc, input_paths[fi], year, CanonicalHeaders(row),
                             county_lookup))

\* C13: a row is ingested exactly as if the names of its county, office,
\* party, candidate and votes columns were in lower case and trimmed.
C13_HeadersCaseInsensitive ==
    [][HeadersTolerated]_vars

(***************************************************************************)
(* Candidate names (SpecCandidate).                                        *)
(***************************************************************************)
\* C14: normalize_candidate_name is idempotent: normalising a normalised
\* candidate name gives the same name.
C14_CandidateNameIdempotent ==
    pc = "normalized" =>
        normalize_candidate_name(probe.candidate) = probe.candidate

(***************************************************************************)
(* Nesting of the output document (SpecFilter).                            *)
(***************************************************************************)
\* The (year, contest_type) pairs of the written document
WrittenContests ==
    IF output.written
    THEN UNION {{<<y, ct>> : ct \in DOMAIN output.results_by_year[y]} :
                    y \in DOMAIN output.results_by_year}
    ELSE {}

\* C20 (original statement): results_by_year[year][contest_type] is itself
\* the structure that holds the contest display name and the per-county
\* results, with no key in between.
C20_ContestBlockIsStructure ==
    \A c \in WrittenContests :
        /\ "contest_name" \in DOMAIN output.results_by_year[c[1]][c[2]]
        /\ "results" \in DOMAIN output.results_by_year[c[1]][c[2]]

\* C20: results_by_year[year][contest_type] is a mapping with the single key
\* "<contest_type>_<year>", whose value is the structure that holds the
\* contest display name and the per-county results; the reader of the
\* document reaches the per-county results through that first key.
C20_ContestBlockUnderContestKey ==
    \A c \in WrittenContests :
        LET block == output.results_by_year[c[1]][c[2]]
            key   == c[2] \o "_" \o Join(c[1])
        IN  /\ DOMAIN block = {key}
            /\ DOMAIN block[key] = {"contest_name", "results"}
            /\ block[key].contest_name = contest_labels_by_year[c]
            /\ DOMAIN block[key].results # {}
            /\ get_county_results_for_contest(output, DigitsValue(c[1]), c[2])
                   = block[key].results

\* C20: a document with the governor and the president contests of one year
\* was written
C20_Witness_TwoContestsOfAYear ==
    /\ pc = "done"
    /\ \E y \in DOMAIN output.results_by_year :
          /\ DOMAIN output.results_by_year[y] = {"governor", "president"}
          /\ DOMAIN output.results_by_year[y]["governor"] = {"governor_2020"}
          /\ DOMAIN output.results_by_year[y]["president"] = {"president_2020"}

(***************************************************************************)
(* Whole runs with their rows remembered (SpecLedger).                     *)
(***************************************************************************)
\* The run read exactly the two scenario rows from one file of 2020
ScenarioRun ==
    /\ pc = "done"
    /\ Len(input_paths) = 1
    /\ year = Txt_2020
    /\ RowsOfFile(1) \in {<<Row_JaneDoe100, Row_JohnRoe50>>,
                          <<Row_JohnRoe50, Row_JaneDoe100>>}

\* C21: the rows (Kanawha, PRESIDENT, DEM, Jane Doe, 100) and (Kanawha,
\* PRESIDENT, REP, John Roe, 50) of a 2020 file give the Kanawha president
\* result dem_votes 100, rep_votes 50, other_votes 0, total_votes 150,
\* margin 50, margin_pct 33.33, winner DEM, category Dominant Democratic and
\* code D_DOMINANT.
C21_EndToEndScenario ==
    ScenarioRun =>
        /\ Txt_2020 \in DOMAIN output.results_by_year
        /\ "president" \in DOMAIN output.results_by_year[Txt_2020]
        /\ LET results ==
                   output.results_by_year[Txt_2020]["president"]["president_2020"].results
           IN  /\ DOMAIN results = {Txt_Kanawha}
               /\ results[Txt_Kanawha].dem_votes = 100
               /\ results[Txt_Kanawha].rep_votes = 50
               /\ results[Txt_Kanawha].other_votes = 0
               /\ results[Txt_Kanawha].total_votes = 150
               /\ results[Txt_Kanawha].margin = 50
               /\ results[Txt_Kanawha].margin_pct = 3333
               /\ results[Txt_Kanawha].winner = "DEM"
               /\ results[Txt_Kanawha].competitiveness.category = "Dominant Democratic"
               /\ results[Txt_Kanawha].competitiveness.code = "D_DOMINANT"

\* C21: the scenario was run, John Roe's row first, and a document written
C21_Witness_ScenarioRun ==
    /\ ScenarioRun
    /\ RowsOfFile(1) = <<Row_JohnRoe50, Row_JaneDoe100>>
    /\ output.written
    /\ output.metadata.counties_count = 1

\* The votes of the rows of a file that pass the filters of lines 338-350
\* and fall under year y, contest type ct and county key ck
RECURSIVE VotesOfPassingRows(_, _, _, _, _)
VotesOfPassingRows(rows, path, y, ct, ck) ==
    IF rows = <<>> THEN 0
    ELSE LET n == NormalizedRow(path, Head(rows), county_lookup)
             mine == /\ ~RowSkipped(n)
                     /\ OFFICE_MAP[n.office][1] = ct
                     /\ county_key(n.county) = ck
         IN  (IF mine THEN n.votes.value ELSE 0)
             + VotesOfPassingRows(Tail(rows), path, y, ct, ck)

\* C25: in a run over one file, total_votes of every written county result is
\* the sum of the votes of every row of the file that passes the filters and
\* belongs to that year, contest and county, so two precinct rows that agree
\* in party, candidate and votes both count.
C25_NoVoteLostWithinFile ==
    (pc = "done" /\ Len(input_paths) = 1) =>
        \A k \in WrittenCounties :
            ResultOfCounty(k[1], k[2], k[3]).total_votes =
                VotesOfPassingRows(RowsOfFile(1), input_paths[1], k[1], k[2], k[3])

\* The orders in which the rows of a file can be written
RowOrders(s) ==
    LET n == Len(s)
        bijections == {p \in [1..n -> 1..n] : \A i, j \in 1..n : p[i] = p[j] => i = j}
    IN  {AsSeq([i \in 1..n |-> s[p[i]]]) : p \in bijections}

\* The ways to give the run the same files: <<paths, rows>>, the files in
\* either order and the rows of each file in any order
Arrangements ==
    IF Len(input_paths) = 1
    THEN {<<input_paths, <<r>>>> : r \in RowOrders(RowsOfFile(1))}
    ELSE UNION {{<<input_paths, <<r1, r2>>>>,
                 <<<<input_paths[2], input_paths[1]>>, <<r2, r1>>>>} :
                   r1 \in RowOrders(RowsOfFile(1)),
                   r2 \in RowOrders(RowsOfFile(2))}

\* The entries of a document and their arithmetic: year, contest type, county
\* and the result without the names of the candidates
ArithmeticOf(doc) ==
    IF ~doc.written THEN {}
    ELSE UNION {UNION {{<<y, ct, c,
                         [f \in {"dem_votes", "rep_votes", "other_votes",
                                 "total_votes", "two_party_total", "margin",
                                 "margin_pct", "winner", "competitiveness",
                                 "all_parties"} |->
                              doc.results_by_year[y][ct][ContestKey(ct, y)].results[c][f]]>> :
                         c \in DOMAIN doc.results_by_year[y][ct][ContestKey(ct, y)].results} :
                       ct \in DOMAIN doc.results_by_year[y]} :
                y \in DOMAIN doc.results_by_year}

\* C26: giving the run its files in the other order, or the rows of a file in
\* another order, changes neither which (year, contest, county) entries are
\* written nor the votes, totals, margin, margin_pct, winner, competitiveness
\* or all_parties of any of them.
C26_OrderIndependentArithmetic ==
    pc = "done" =>
        \A a \in Arrangements :
            ArithmeticOf(RunOver(a[1], a[2], county_lookup,
                                 args.min_counties_per_contest))
                = ArithmeticOf(output)

(***************************************************************************)
(* Vote parsing (SpecVotes).                                               *)
(***************************************************************************)
\* The names of the columns of a row, trimmed and in lower case
ColumnNames(r) == {Lower(Strip(r[i].k)) : i \in 1..Len(r)}

\* The text of the column called name: the last one, as in a dict
ColumnText(r, name) ==
    r[CHOOSE i \in 1..Len(r) :
          /\ Lower(Strip(r[i].k)) = name
          /\ \A j \in (i + 1)..Len(r) : Lower(Strip(r[j].k)) # name].v

\* The column the votes are documented to come from: the first present of
\* votes, total votes, total_votes
VotesColumn(r) ==
    IF H_votes \in ColumnNames(r) THEN H_votes
    ELSE IF H_total_votes \in ColumnNames(r) THEN H_total_votes
    ELSE H_total_votes_u

HasVotesColumn(r) ==
    ColumnNames(r) \cap {H_votes, H_total_votes, H_total_votes_u} # {}

\* A decimal number: an optional minus sign, digits with at most one point
\* among them, and at least one digit
Unsigned(t) == IF t # <<>> /\ Head(t) = "-" THEN Tail(t) ELSE t

PointOf(t) == IndexIn(Unsigned(t), ".")

IntegerDigits(t) ==
    IF PointOf(t) = 0 THEN Unsigned(t) ELSE SubSeq(Unsigned(t), 1, PointOf(t) - 1)

FractionDigits(t) ==
    IF PointOf(t) = 0 THEN <<>>
    ELSE SubSeq(Unsigned(t), PointOf(t) + 1, Len(Unsigned(t)))

IsDecimalNumber(t) ==
    /\ \A i \in 1..Len(IntegerDigits(t)) : IsDigit(IntegerDigits(t)[i])
    /\ \A i \in 1..Len(FractionDigits(t)) : IsDigit(FractionDigits(t)[i])
    /\ Len(IntegerDigits(t)) + Len(FractionDigits(t)) > 0

\* n is an integer nearest to the decimal number t
NearestInteger(t, n) ==
    LET scale  == Pow10(Len(FractionDigits(t)))
        digits == DigitsValue(IntegerDigits(t) \o FractionDigits(t))
        scaled == IF t # <<>> /\ Head(t) = "-" THEN 0 - digits ELSE digits
    IN  2 * Abs(n * scale - scaled) <= scale

\* What the field text is documented to give
DocumentedVotes(text, votes) ==
    LET s == Strip(text)
        t == Strip(RemoveChar(s, ","))
    IN  IF s = <<>> \/ RemoveChar(s, ",") \in {<<"-">>, <<"-", "-">>}
        THEN votes = Returned(0)
        ELSE IF IsDecimalNumber(t)
        THEN ~votes.raised /\ NearestInteger(t, votes.value)
        ELSE votes.raised

\* C22: an empty field, '-' or '--' gives 0, thousands separators are
\* removed, any other decimal number is rounded to a nearest integer, any
\* other text raises the parse error, and the field is the one of the first
\* present of the columns votes, total votes, total_votes (0 when there is
\* none).
C22_VoteParsing ==
    pc = "extracted" =>
        IF HasVotesColumn(probe.row)
        THEN DocumentedVotes(ColumnText(probe.row, VotesColumn(probe.row)),
                             probe.votes)
        ELSE probe.votes = Returned(0)

\* C22: 'Total Votes' holding 1,2 was parsed as 12
C22_Witness_SeparatorStripped ==
    /\ pc = "extracted"
    /\ probe.row = <<[k |-> Hdr_Total_Votes, v |-> <<"1", ",", "2">>]>>
    /\ probe.votes = Returned(12)

(***************************************************************************)
(* The fields of one classification (SpecClassify).                        *)
(***************************************************************************)
\* C24 as stated: party is Tossup exactly when the code is T_TOSSUP,
\* Democratic exactly when the code starts with D_ and Republican exactly
\* when it starts with R_.
C24_PartyFollowsCode ==
    pc = "classified" =>
        LET c == probe.competitiveness
        IN  /\ c.party = "Tossup" <=> c.code = "T_TOSSUP"
            /\ c.code = "T_TOSSUP" <=> c.category = "Tossup"
            /\ c.party = "Democratic" <=> c.code \in DirectionCodes("D_")
            /\ c.party = "Republican" <=> c.code \in DirectionCodes("R_")

\* C24: party follows the sign of margin_pct (Tossup exactly at 0.00,
\* Democratic above, Republican below), so a code that starts with D_ comes
\* with party Democratic, one that starts with R_ with party Republican, and
\* party Tossup with code T_TOSSUP; the code is T_TOSSUP exactly when the
\* category is Tossup, and then the party is the one of the side that leads.
C24_PartyFollowsSign ==
    pc = "classified" =>
        LET c == probe.competitiveness
            m == probe.margin_pct
        IN  /\ c.party = "Tossup" <=> m = 0
            /\ c.party = "Democratic" <=> m > 0
            /\ c.party = "Republican" <=> m < 0
            /\ c.code \in DirectionCodes("D_") => c.party = "Democratic"
            /\ c.code \in DirectionCodes("R_") => c.party = "Republican"
            /\ c.party = "Tossup" => c.code = "T_TOSSUP"
            /\ c.code = "T_TOSSUP" <=> c.category = "Tossup"

\* C24: a margin of 0.30 was classified Tossup, T_TOSSUP, party Democratic
C24_Witness_LeadInsideTossup ==
    /\ pc = "classified"
    /\ probe.margin_pct = 30
    /\ probe.competitiveness.code = "T_TOSSUP"
    /\ probe.competitiveness.category = "Tossup"
    /\ probe.competitiveness.party = "Democratic"

(***************************************************************************)
(* The metadata of the document (SpecMeta).                                *)
(***************************************************************************)
\* The place of a contest type in the alphabet
AlphabeticalRank(ct) ==
    CHOOSE i \in 1..Len(ContestTypesSorted) : ContestTypesSorted[i] = ct

\* The (year, contest_type) groups that reach the county minimum
Surviving(y) ==
    {ct \in ContestTypes :
        /\ CountiesWithRecords(y, ct) # {}
        /\ Cardinality(CountiesWithRecords(y, ct)) >= args.min_counties_per_contest}

MetadataAgrees ==
    LET years    == output.metadata.years
        contests == output.metadata.contests
        rby      == output.results_by_year
    IN  /\ {years[i] : i \in 1..Len(years)} = {DigitsValue(y) : y \in DOMAIN rby}
        /\ \A i \in 1..(Len(years) - 1) : years[i] < years[i + 1]
        /\ \A y \in DOMAIN rby : DOMAIN rby[y] # {}
        /\ \A y \in GroupedYears(grouped_by_year) :
              Surviving(y) = {} =>
                  /\ y \notin DOMAIN rby
                  /\ \A i \in 1..Len(years) : years[i] # DigitsValue(y)
        /\ {contests[i] : i \in 1..Len(contests)} = {c[2] : c \in WrittenContests}
        /\ \A i \in 1..(Len(contests) - 1) :
              AlphabeticalRank(contests[i]) < AlphabeticalRank(contests[i + 1])
        /\ output.metadata.counties_count =
              Cardinality(UNION {CountiesReported(c[1], c[2]) : c \in WrittenContests})

\* C29: metadata.years is the ascending list of the years that are keys of
\* results_by_year, a year without a surviving contest is in neither,
\* metadata.contests is the sorted list of the contest types found under some
\* year, and metadata.counties_count is the number of distinct counties of
\* the surviving contests.
C29_MetadataAgreesWithResults ==
    (pc = "done" /\ output.written) => MetadataAgrees

\* C29: with a minimum of two, the year 2024 and the president contest of
\* 2020 were dropped, and with them the one county seen only there
C29_Witness_DroppedYearAndCounty ==
    /\ pc = "done"
    /\ args.min_counties_per_contest = 2
    /\ output.metadata.years = <<2020>>
    /\ output.metadata.contests = <<"governor">>
    /\ output.metadata.counties_count = 2
    /\ Cardinality(GroupedYears(grouped_by_year)) = 2
    /\ Cardinality(DOMAIN county_name_by_key) = 3

(***************************************************************************)
(* File selection in glob mode (SpecSelect).                               *)
(***************************************************************************)
Discovered == {args.discovered[i] : i \in 1..Len(args.discovered)}

\* The files the run reads
IngestedFiles == {input_paths[i] : i \in 1..Len(input_paths)}

YearOfFile(p) == DigitsValue(infer_year_from_filename(p).value)

\* Some discovered file of the year of p is a county file
YearHasCountyFile(p) ==
    \E q \in Discovered : YearOfFile(q) = YearOfFile(p) /\ q.county_file

\* C30: in glob mode a discovered file is read if and only if its year is at
\* least the minimum year and it is not a precinct file of a year that has a
\* county file; so no precinct file of such a year is read, no file below
\* the minimum year is read and a file of the minimum year is.
C30_GlobSelection ==
    (pc # "start" /\ ~args.use_input) =>
        /\ IngestedFiles \subseteq Discovered
        /\ \A p \in Discovered :
              p \in IngestedFiles <=>
                  /\ YearOfFile(p) >= args.min_year
                  /\ ~(p.precinct /\ YearHasCountyFile(p))

\* C30: of the county file of 2016, a precinct file and the county file of
\* 2020 and a precinct file of 2024, with the minimum year 2020, the county
\* file of 2020 and the precinct file of 2024 were read
C30_Witness_PrecinctLeftOut ==
    /\ pc = "done"
    /\ args.discovered = <<P2016county, P2020precinct, P2020county, P2024precinct>>
    /\ args.min_year = 2020
    /\ input_paths = <<P2020county, P2024precinct>>
    /\ output.written

====
